---- MODULE Spec2Model ----
(***************************************************************************)
(* A model of the DFU / DFUSe flashing core of pandaFlash: the DfuDevice   *)
(* class (abortToIdle, pollUntil, dnloadBlock, do_download, dfuseErase,    *)
(* dfuseSetAddress), the retry orchestrators (flashWithRetry,              *)
(* writeWithFallback) and the flash script of the page (Page.flash,        *)
(* withTimeout), as found in src/unnamed/part_001 lines 1091-1889.         *)
(*                                                                         *)
(* One step of the model is one awaited device exchange (a control         *)
(* transfer with its answer) or one timer, followed by the synchronous     *)
(* code that runs up to the next await.  The device is the environment:    *)
(* every exchange may be answered "ok", answered with a transfer status    *)
(* other than "ok" (stall), or rejected because the device is gone, and    *)
(* the status / state bytes it returns are chosen freely.                  *)
(***************************************************************************)
EXTENDS Integers, Sequences, FiniteSets, TLC

VARIABLES
    call,            \* the DfuDevice method in progress: its position and its locals
    dnloads,         \* the DNLOAD requests issued by the method in progress, in order
    progress,        \* the (done, total) pairs the method in progress handed to logProgress
    orch,            \* the retry orchestrator in progress: its position and its locals
    fl,              \* the flash() callback of the page: its position and its outcome
    wire,            \* what the device was asked to do during the flash run, in order
    bus,             \* the device session as the client has used it: the last request
                     \* issued, the state last read before and after it, the
                     \* operations that issued the last requests
    dev,             \* the state of the device, for a device that follows the DFU
                     \* state machine (AnyDevice: a device that may answer anything)
    connected,       \* the device is still on the bus (a device that has gone does
                     \* not come back to the same USBDevice)
    lastStatus,      \* the status code and the state that the device gave in answer to
                     \* the last GETSTATUS since the last DNLOAD
    pandaBuffer,     \* byteLength of the main image handed to flash
    bootstubBuffer,  \* byteLength of the bootstub image handed to flash
    background       \* the flash() callbacks that are suspended at an await while
                     \* another one runs: for each, its call, dnloads, progress,
                     \* orch, fl, wire and lastStatus

vars ==
    <<call, dnloads, progress, orch, fl, wire, bus, dev, connected, lastStatus,
      pandaBuffer, bootstubBuffer,
      background>>

(***************************************************************************)
(* Bounds of the model.                                                    *)
(***************************************************************************)
\* longest image handed to a direct do_download call
MaxLen == 5
\* largest transfer size handed to a direct do_download call
MaxXfer == 3
\* largest firstBlock handed to a direct do_download call (the smallest is 2)
MaxFirstBlock == 3

(***************************************************************************)
(* DfuDevice.DFU: the class requests.                                      *)
(***************************************************************************)
DETACH == 0
DNLOAD == 1
UPLOAD == 2
GETSTATUS == 3
CLRSTATUS == 4
GETSTATE == 5
ABORT == 6

(***************************************************************************)
(* DfuDevice.STATE: the device states.                                     *)
(***************************************************************************)
appIDLE == 0
appDETACH == 1
dfuIDLE == 2
dfuDNLOAD_SYNC == 3
dfuDNBUSY == 4
dfuDNLOAD_IDLE == 5
dfuMANIFEST_SYNC == 6
dfuMANIFEST == 7
dfuMANIFEST_WAIT_RESET == 8
dfuUPLOAD_IDLE == 9
dfuERROR == 10

\* DFUSe command opcodes
SET_ADDRESS == 33
ERASE == 65

Min(a, b) == IF a <= b THEN a ELSE b

(***************************************************************************)
(* The environment: how a control transfer may end, and what the device    *)
(* may report.                                                             *)
(***************************************************************************)
\* "ok": the transfer resolved with status "ok"; "stall": it resolved with another
\* status; "disconnected": it was rejected, the device being gone (the rejection's
\* message holds the word "disconnected").
Outcomes == {"ok", "stall", "disconnected"}

\* dev of a device that may answer anything
AnyDevice == -1

\* the states a device reports: for a device that may answer anything, those it
\* reports while it is being written
ReportedStates ==
    IF dev = AnyDevice THEN {dfuIDLE, dfuDNBUSY, dfuDNLOAD_IDLE, dfuERROR} ELSE appIDLE..dfuERROR

\* the status codes a device reports: OK, and one error code
ReportedStatus == {0, 5}

\* the poll timeouts a device reports (milliseconds)
ReportedTimeouts == {0, 10}

(***************************************************************************)
(* Errors: what is thrown, by the place that throws it.  state and status  *)
(* are the numbers the message names (-1: the message names none).         *)
(***************************************************************************)
Err(kind, state, status) == [kind |-> kind, state |-> state, status |-> status]

NoErr == Err("none", -1, -1)

\* requestOut / requestIn: the transfer did not end "ok"
TransferError(o) ==
    IF o = "disconnected" THEN Err("disconnected", -1, -1)
    ELSE Err("transfer", -1, -1)

\* errorMsg.includes("disconnected")
IncludesDisconnected(e) == e.kind = "disconnected"

\* errorMsg.includes("timed out")
IncludesTimedOut(e) == e.kind = "timeout"

(***************************************************************************)
(* DfuDevice.getStatus: the record made of the 6 status bytes.             *)
(***************************************************************************)
NoStatus == [status |-> -1, pollTimeout |-> -1, state |-> -1]

\* no GETSTATUS answered since the last DNLOAD
NoAnswer == [status |-> -1, state |-> -1]

\* the status code and the state of an answer to GETSTATUS
Answer(b0, b4) == [status |-> b0, state |-> b4]

(***************************************************************************)
(* requestOut / requestIn: a control transfer on this.device.              *)
(***************************************************************************)
\* a class request to the interface, with the length of its data
Class(request, length) == [requestType |-> "class", request |-> request, length |-> length]

\* getTransferSize: const GET_DESCRIPTOR = 0x06, a standard request to the device
GET_DESCRIPTOR == 6

Standard(request) == [requestType |-> "standard", request |-> request, length |-> 0]

\* nothing requested yet, no state read yet; the device as connect leaves it: open,
\* the stored configuration active, the stored interface claimed, its alternate
\* setting selected (configuration 0: none selected, alternate -1: none)
NoBus ==
    [opened |-> TRUE, configuration |-> 1, claimed |-> TRUE, alternate |-> 0,
     alternates |-> 1,
     request |-> [requestType |-> "none", request |-> -1, length |-> 0], status |-> "none",
     before |-> -1, observed |-> -1, ops |-> <<>>, issued |-> 0]

\* how many control transfers are followed once Flash Firmware has been pressed again
MaxAfterPress == 2

\* Flash Firmware has been pressed again
AfterPress == fl.run > 0 \/ background # <<>>

\* the operation that issues a request: the flash run, its step and the attempt of
\* the orchestrator
OpId == [run |-> fl.run, step |-> fl.step, attempt |-> Len(orch.attempts)]

\* the operations that issued the last requests, oldest first, one entry for
\* requests of one operation in a row
Noted(ops, id) ==
    IF ops # <<>> /\ ops[Len(ops)] = id THEN ops
    ELSE IF Len(ops) = 3 THEN Append(Tail(ops), id)
    ELSE Append(ops, id)

\* what a device that follows the DFU state machine does with a request in state d:
\* how the transfer ends and the state it is in afterwards.  Where devices differ,
\* every answer is possible: DFU 1.1 has a device stall an ABORT it receives in
\* dfuERROR, dfuDNBUSY or dfuMANIFEST, others accept the request and stay as they are
Ok(next) == [outcome |-> "ok", next |-> next]

Stall(next) == [outcome |-> "stall", next |-> next]

Device(d, r) ==
    IF r.requestType = "standard" THEN {Ok(d)}
    ELSE IF d \in {appIDLE, appDETACH}
    THEN IF r.request \in {GETSTATE, GETSTATUS} THEN {Ok(d)}
         ELSE IF r.request = DETACH THEN {Ok(appDETACH)}
         ELSE {Stall(d)}
    ELSE IF d = dfuMANIFEST_WAIT_RESET THEN {Stall(d)}
    ELSE IF d \in {dfuDNBUSY, dfuMANIFEST}
    THEN IF r.request = GETSTATUS
         THEN IF d = dfuDNBUSY THEN {Ok(dfuDNBUSY), Ok(dfuDNLOAD_IDLE), Ok(dfuERROR)}
              ELSE {Ok(dfuMANIFEST), Ok(dfuIDLE), Stall(dfuMANIFEST_WAIT_RESET)}
         ELSE IF r.request = GETSTATE THEN {Ok(d), Stall(dfuERROR)}
         ELSE IF r.request = ABORT THEN {Ok(d), Stall(dfuERROR)}
         ELSE {Stall(dfuERROR)}
    ELSE IF r.request = GETSTATE THEN {Ok(d)}
    ELSE IF r.request = GETSTATUS
    THEN IF d = dfuDNLOAD_SYNC THEN {Ok(dfuDNBUSY), Ok(dfuDNLOAD_IDLE), Ok(dfuERROR)}
         ELSE IF d = dfuMANIFEST_SYNC THEN {Ok(dfuMANIFEST), Ok(dfuIDLE)}
         ELSE {Ok(d)}
    ELSE IF d = dfuERROR
    THEN IF r.request = CLRSTATUS THEN {Ok(dfuIDLE)}
         ELSE IF r.request = ABORT THEN {Ok(dfuERROR), Stall(dfuERROR)}
         ELSE {Stall(dfuERROR)}
    ELSE IF r.request = ABORT THEN {Ok(dfuIDLE)}
    ELSE IF r.request = DNLOAD /\ d \in {dfuIDLE, dfuDNLOAD_IDLE}
    THEN IF r.length > 0 THEN {Ok(dfuDNLOAD_SYNC)}
         ELSE IF d = dfuDNLOAD_IDLE THEN {Ok(dfuMANIFEST_SYNC)}
         ELSE {Ok(dfuMANIFEST_SYNC), Stall(dfuERROR)}
    ELSE {Stall(dfuERROR)}

\* bStatus of a GETSTATUS answer of such a device: errWRITE in dfuERROR, OK otherwise
StatusOf(d) == IF d = dfuERROR THEN 5 ELSE 0

\* one control transfer of request r ending with outcome o and, for GETSTATE and
\* GETSTATUS, with answer ans.  A device that was closed rejects the transfer, and
\* so does a device that has gone, for good
Transfer(o, r, ans) ==
    /\ AfterPress => bus.issued < MaxAfterPress
    /\ IF ~bus.opened THEN o = "stall" /\ UNCHANGED <<dev, connected>>
       ELSE IF ~connected THEN o = "disconnected" /\ UNCHANGED <<dev, connected>>
       ELSE IF dev = AnyDevice THEN connected' = (o # "disconnected") /\ dev' = dev
       ELSE /\ connected' = connected
            /\ \E a \in Device(dev, r) :
                  /\ o = a.outcome
                  /\ dev' = a.next
                  /\ (o = "ok" /\ ans.state # -1) =>
                        ans.state = a.next /\ ans.status \in {-1, StatusOf(a.next)}
    /\ bus' = [bus EXCEPT
                 !.request = r,
                 !.status = o,
                 !.before = bus.observed,
                 !.observed = IF o = "ok" /\ ans.state # -1 THEN ans.state ELSE bus.observed,
                 !.ops = Noted(bus.ops, OpId),
                 !.issued = IF AfterPress THEN bus.issued + 1 ELSE bus.issued]

getStatus(b0, timeout, b4) == [status |-> b0, pollTimeout |-> timeout, state |-> b4]

(***************************************************************************)
(* Payloads of a DNLOAD.  The image is an ArrayBuffer whose bytes the code *)
(* never looks at, so a payload cut from it is named by the bytes it       *)
(* holds: view.slice(from, to) is the bytes from .. to-1 of the image,     *)
(* clamped to the image.  A command payload is its 5 bytes.                *)
(***************************************************************************)
\* the slip view.slice(sent, size): the second argument taken for a length
slice_EndAsLength(byteLength, from, to) ==
    LET lo == Min(from, byteLength)
        hi == Min(to - from, byteLength)
    IN  [src |-> "view", off |-> lo, len |-> IF hi > lo THEN hi - lo ELSE 0, bytes |-> <<>>]

slice(byteLength, from, to) ==
    LET lo == Min(from, byteLength)
        hi == Min(to, byteLength)
    IN  [src |-> "view", off |-> lo, len |-> IF hi > lo THEN hi - lo ELSE 0, bytes |-> <<>>]

\* new ArrayBuffer(0)
EmptyBuffer == [src |-> "empty", off |-> 0, len |-> 0, bytes |-> <<>>]

\* the slip v.setUint32(1, addr): without the little-endian flag the high byte
\* comes first
CommandBuffer_BigEndian(opcode, addr) ==
    [src |-> "cmd", off |-> 0, len |-> 5,
     bytes |-> <<opcode % 256, (addr \div 16777216) % 256, (addr \div 65536) % 256,
                 (addr \div 256) % 256, addr % 256>>]

\* v.setUint8(0, opcode); v.setUint32(1, addr, true).  Every address of the model
\* is below 2^31, so setUint32 wraps nothing.
CommandBuffer(opcode, addr) ==
    [src |-> "cmd", off |-> 0, len |-> 5,
     bytes |-> <<opcode % 256, addr % 256, (addr \div 256) % 256,
                 (addr \div 65536) % 256, (addr \div 16777216) % 256>>]

\* the address that bytes 1..4 of a command payload hold
CommandAddress(p) ==
    p.bytes[2] + 256 * p.bytes[3] + 65536 * p.bytes[4] + 16777216 * p.bytes[5]

Opcode(op) == IF op = "dfuseErase" THEN ERASE ELSE SET_ADDRESS

(***************************************************************************)
(* The DfuDevice method in progress.  entered, first and slept are         *)
(* history: the state the device (for open, the session) was in when a     *)
(* method was called on its own, how the first of two calls in a row       *)
(* ended, and the time of the sleep since the last GETSTATUS.              *)
(***************************************************************************)
NoCall ==
    [op |-> "none", pc |-> "none", caller |-> "none", addr |-> 0,
     xferSize |-> 0, byteLength |-> 0, manifestationTolerant |-> FALSE,
     firstBlock |-> 0, sent |-> 0, block |-> 0,
     s |-> -1, st |-> NoStatus, targetState |-> -1, err |-> NoErr,
     records |-> <<>>, cut |-> 0, settings |-> <<0, 0>>, wTotalLength |-> 0,
     bytes |-> <<>>, offset |-> 0, inTargetIntf |-> FALSE, result |-> 0,
     entered |-> -1, first |-> "none", slept |-> -1]

\* dev.do_download(xferSize, data, manifestationTolerant, firstBlock), up to the
\* first request of abortToIdle
do_download(caller, xferSize, byteLength, manifestationTolerant, firstBlock) ==
    [NoCall EXCEPT !.op = "do_download", !.pc = "abort", !.caller = caller,
                   !.xferSize = xferSize, !.byteLength = byteLength,
                   !.manifestationTolerant = manifestationTolerant,
                   !.firstBlock = firstBlock]

\* dev.dfuseErase(addr) / dev.dfuseSetAddress(addr), up to the first request of
\* abortToIdle
dfuseCall(caller, op, addr) ==
    [NoCall EXCEPT !.op = op, !.pc = "abort", !.caller = caller, !.addr = addr]

\* dev.abortToIdle(), up to its first request
abortToIdleCall(caller) ==
    [NoCall EXCEPT !.op = "abortToIdle", !.pc = "abort", !.caller = caller]

\* the slip of an error that is not raised: the method returns
Throw_Swallowed(c, e) == [c EXCEPT !.pc = "returned", !.st = NoStatus, !.s = -1]

Throw(c, e) == [c EXCEPT !.pc = "threw", !.err = e, !.st = NoStatus, !.s = -1]

Return(c) == [c EXCEPT !.pc = "returned", !.st = NoStatus, !.s = -1]

\* the slip of a block size that is not cut to what is left of the image
ChunkSize_Unclamped(c) == c.xferSize

\* const size = Math.min(xferSize, view.byteLength - sent)
ChunkSize(c) == Min(c.xferSize, c.byteLength - c.sent)

(***************************************************************************)
(* abortToIdle.                                                            *)
(***************************************************************************)
\* the code after abortToIdle has read the state s: the check of abortToIdle, then
\* the caller's code up to its next request
\* the slip let block = 0: the numbering does not start at firstBlock
AfterAbort_BlockZero(c, s) ==
    IF s # dfuIDLE THEN Throw(c, Err("idle", s, -1))
    ELSE IF c.op = "abortToIdle" THEN Return(c)
    ELSE IF c.op = "do_download"
         THEN [c EXCEPT !.pc = "loop", !.sent = 0, !.block = 0, !.s = -1]
         ELSE [c EXCEPT !.pc = "cmd", !.s = -1]

\* the slip of leaving out the check: abortToIdle returns whatever state it read
AfterAbort_Unchecked(c, s) ==
    IF c.op = "abortToIdle" THEN Return(c)
    ELSE IF c.op = "do_download"
         THEN [c EXCEPT !.pc = "loop", !.sent = 0, !.block = c.firstBlock, !.s = -1]
         ELSE [c EXCEPT !.pc = "cmd", !.s = -1]

AfterAbort(c, s) ==
    IF s # dfuIDLE THEN Throw(c, Err("idle", s, -1))
    ELSE IF c.op = "abortToIdle" THEN Return(c)
    ELSE IF c.op = "do_download"
         THEN [c EXCEPT !.pc = "loop", !.sent = 0, !.block = c.firstBlock, !.s = -1]
         ELSE [c EXCEPT !.pc = "cmd", !.s = -1]

\* the slip of never clearing the error
IsError_Never(s) == FALSE

\* if (s === DfuDevice.STATE.dfuERROR)
IsError(s) == s = dfuERROR

\* await this.requestOut(DfuDevice.DFU.ABORT)
abortToIdle_ABORT ==
    /\ call.pc = "abort"
    /\ \E o \in Outcomes : Transfer(o, Class(ABORT, 0), NoAnswer) /\
         (call' = IF o = "ok" THEN [call EXCEPT !.pc = "abort_getState"]
                 ELSE Throw(call, TransferError(o)))
    /\ UNCHANGED <<background, dnloads, progress, orch, fl, wire, lastStatus, pandaBuffer, bootstubBuffer>>

\* let s = await this.getState(), after ABORT and again after CLRSTATUS
abortToIdle_getState ==
    /\ call.pc \in {"abort_getState", "clr_getState"}
    /\ \E o \in Outcomes, s \in ReportedStates : Transfer(o, Class(GETSTATE, 0), Answer(-1, s)) /\
         (/\ call' = IF o # "ok" THEN Throw(call, TransferError(o))
                    ELSE IF call.pc = "abort_getState" /\ IsError(s)
                         THEN [call EXCEPT !.pc = "clrstatus", !.s = s]
                         ELSE AfterAbort(call, s)
         /\ progress' = IF o = "ok" /\ call.op = "do_download" /\ call'.pc = "loop"
                        THEN <<<<0, call.byteLength>>>>
                        ELSE progress)
    /\ UNCHANGED <<background, dnloads, orch, fl, wire, lastStatus, pandaBuffer, bootstubBuffer>>

\* await this.requestOut(DfuDevice.DFU.CLRSTATUS)
abortToIdle_CLRSTATUS ==
    /\ call.pc = "clrstatus"
    /\ \E o \in Outcomes : Transfer(o, Class(CLRSTATUS, 0), NoAnswer) /\
         (call' = IF o = "ok" THEN [call EXCEPT !.pc = "clr_getState"]
                 ELSE Throw(call, TransferError(o)))
    /\ UNCHANGED <<background, dnloads, progress, orch, fl, wire, lastStatus, pandaBuffer, bootstubBuffer>>

(***************************************************************************)
(* The record of the flash run: a vendor command is entered when its       *)
(* DNLOAD is issued, an image stream when a do_download attempt for that   *)
(* image issues its first DNLOAD (once per image, however many attempts).  *)
(***************************************************************************)
CommandEvent(p) == [opcode |-> p.bytes[1], addr |-> CommandAddress(p), operation |-> ""]

StreamEvent(operation) == [opcode |-> -1, addr |-> -1, operation |-> operation]

\* a request issued after the device has gone reaches nothing
Logged(w, e) == IF fl.status = "none" \/ ~connected THEN w ELSE Append(w, e)

\* the first DNLOAD of a do_download attempt
Streaming(w, operation) ==
    IF Len(w) > 0 /\ w[Len(w)] = StreamEvent(operation) THEN w
    ELSE Logged(w, StreamEvent(operation))

(***************************************************************************)
(* dnloadBlock, pollUntil, do_download, dfuseErase, dfuseSetAddress.       *)
(***************************************************************************)
\* what a requestOut(DNLOAD, data, blockNum) leaves in the record of the call
Dnload(data, blockNum) == [blockNum |-> blockNum, data |-> data]

\* dfuseErase / dfuseSetAddress: const st = await this.dnloadBlock(b, 0), its
\* requestOut
dfuse_dnloadBlock ==
    /\ call.pc = "cmd"
    /\ LET b == CommandBuffer(Opcode(call.op), call.addr)
       IN  /\ dnloads' = Append(dnloads, Dnload(b, 0))
           /\ wire' = Logged(wire, CommandEvent(b))
    /\ \E o \in Outcomes : Transfer(o, Class(DNLOAD, 5), NoAnswer) /\
         (call' = IF o = "ok"
                 THEN [call EXCEPT !.pc = "poll", !.targetState = dfuDNLOAD_IDLE]
                 ELSE Throw(call, TransferError(o)))
    /\ lastStatus' = NoAnswer
    /\ UNCHANGED <<background, progress, orch, fl, pandaBuffer, bootstubBuffer>>

\* the slip while (sent + xferSize <= view.byteLength): the short last chunk is lost
LoopCondition_DropsTail(c) == c.sent + c.xferSize <= c.byteLength

\* while (sent < view.byteLength)
LoopCondition(c) == c.sent < c.byteLength

\* do_download: one turn of the while loop up to the requestOut of dnloadBlock
do_download_dnloadBlock ==
    /\ call.pc = "loop"
    /\ LoopCondition(call)
    /\ LET size == ChunkSize(call)
       IN  dnloads' = Append(dnloads,
                Dnload(slice(call.byteLength, call.sent, call.sent + size), call.block))
    /\ wire' = IF dnloads = <<>> THEN Streaming(wire, orch.operation) ELSE wire
    /\ \E o \in Outcomes : Transfer(o, Class(DNLOAD, ChunkSize(call)), NoAnswer) /\
         (call' = IF o = "ok"
                 THEN [call EXCEPT !.pc = "poll", !.targetState = dfuDNLOAD_IDLE,
                                   !.block = call.block + 1]
                 ELSE Throw([call EXCEPT !.block = call.block + 1], TransferError(o)))
    /\ lastStatus' = NoAnswer
    /\ UNCHANGED <<background, progress, orch, fl, pandaBuffer, bootstubBuffer>>

\* do_download: await this.requestOut(DfuDevice.DFU.DNLOAD, new ArrayBuffer(0), block++)
do_download_ZLP ==
    /\ call.pc = "loop"
    /\ ~LoopCondition(call)
    /\ dnloads' = Append(dnloads, Dnload(EmptyBuffer, call.block))
    /\ wire' = IF dnloads = <<>> THEN Streaming(wire, orch.operation) ELSE wire
    /\ \E o \in Outcomes : Transfer(o, Class(DNLOAD, 0), NoAnswer) /\
         (call' = IF o # "ok"
                 THEN Throw([call EXCEPT !.block = call.block + 1], TransferError(o))
                 ELSE IF call.manifestationTolerant
                      THEN [call EXCEPT !.pc = "poll", !.targetState = dfuIDLE,
                                        !.block = call.block + 1]
                      ELSE [call EXCEPT !.pc = "final_getStatus",
                                        !.block = call.block + 1])
    /\ lastStatus' = NoAnswer
    /\ UNCHANGED <<background, progress, orch, fl, pandaBuffer, bootstubBuffer>>

\* the code after pollUntil has returned st, up to the caller's next request
\* the slip of not looking at st.status after a data block
AfterPoll_IgnoresStatus(c, st) ==
    IF c.op = "do_download" /\ c.targetState = dfuDNLOAD_IDLE
    THEN [c EXCEPT !.pc = "loop", !.sent = c.sent + ChunkSize(c),
                   !.st = NoStatus, !.targetState = -1]
    ELSE IF c.op = "do_download"
    THEN IF st.status # 0 THEN Throw(c, Err("manifest", st.state, st.status))
         ELSE Return(c)
    ELSE IF st.status # 0 THEN Throw(c, Err(c.op, st.state, st.status))
         ELSE Return(c)

\* the slip of leaving out sent += size
AfterPoll_SentKept(c, st) ==
    IF c.op = "do_download" /\ c.targetState = dfuDNLOAD_IDLE
    THEN IF st.status # 0 THEN Throw(c, Err("download", st.state, st.status))
         ELSE [c EXCEPT !.pc = "loop", !.st = NoStatus, !.targetState = -1]
    ELSE IF c.op = "do_download"
    THEN IF st.status # 0 THEN Throw(c, Err("manifest", st.state, st.status))
         ELSE Return(c)
    ELSE IF st.status # 0 THEN Throw(c, Err(c.op, st.state, st.status))
         ELSE Return(c)

AfterPoll(c, st) ==
    IF c.op = "do_download" /\ c.targetState = dfuDNLOAD_IDLE
    THEN IF st.status # 0 THEN Throw(c, Err("download", st.state, st.status))
         ELSE [c EXCEPT !.pc = "loop", !.sent = c.sent + ChunkSize(c),
                        !.st = NoStatus, !.targetState = -1]
    ELSE IF c.op = "do_download"
    THEN IF st.status # 0 THEN Throw(c, Err("manifest", st.state, st.status))
         ELSE Return(c)
    ELSE IF st.status # 0 THEN Throw(c, Err(c.op, st.state, st.status))
         ELSE Return(c)

\* the slip of a pollUntil that returns its first status whatever the state
Pending_Never(st, targetState) == FALSE

\* pollUntil: while (st.state !== targetState && st.state !== dfuERROR)
Pending(st, targetState) == st.state # targetState /\ st.state # dfuERROR

\* the method after a sleep has ended (slept is history: the time of the sleep since
\* the last GETSTATUS, -1 without one)
Woken(c) == [c EXCEPT !.slept = -1]

\* pollUntil: st = await this.getStatus(), then the test of the while loop
pollUntil_getStatus ==
    /\ call.pc = "poll"
    /\ \E o \in Outcomes, b0 \in ReportedStatus, t \in ReportedTimeouts,
          b4 \in ReportedStates : Transfer(o, Class(GETSTATUS, 0), Answer(b0, b4)) /\
         (LET st == getStatus(b0, t, b4)
         IN  /\ call' = IF o # "ok" THEN Throw(Woken(call), TransferError(o))
                        ELSE IF Pending(st, call.targetState)
                             THEN [Woken(call) EXCEPT !.pc = "sleep", !.st = st]
                             ELSE AfterPoll(Woken(call), st)
             /\ progress' = IF call'.pc = "loop"
                            THEN Append(progress, <<call'.sent, call.byteLength>>)
                            ELSE progress
             /\ lastStatus' = IF o = "ok" THEN Answer(b0, b4) ELSE NoAnswer)
    /\ UNCHANGED <<background, dnloads, orch, fl, wire, pandaBuffer, bootstubBuffer>>

\* pollUntil: await sleep(st.pollTimeout); st is assigned anew by the getStatus
\* that follows
pollUntil_sleep ==
    /\ call.pc = "sleep"
    /\ call' = [call EXCEPT !.pc = "poll", !.st = NoStatus, !.slept = call.st.pollTimeout]
    /\ UNCHANGED <<background, bus, dev, connected, dnloads, progress, orch, fl, wire, lastStatus, pandaBuffer, bootstubBuffer>>

\* do_download, not manifestation tolerant: try { await this.getStatus() } catch {}
do_download_finalStatus ==
    /\ call.pc = "final_getStatus"
    /\ \E o \in Outcomes, b0 \in ReportedStatus, b4 \in ReportedStates : Transfer(o, Class(GETSTATUS, 0), Answer(b0, b4)) /\
         (/\ call' = Return(call)
         /\ lastStatus' = IF o = "ok" THEN Answer(b0, b4) ELSE NoAnswer)
    /\ UNCHANGED <<background, dnloads, progress, orch, fl, wire, pandaBuffer, bootstubBuffer>>

(***************************************************************************)
(* No orchestrator, no flash run.                                          *)
(***************************************************************************)
\* attempts is the history of the run: the size of every do_download attempt made
\* and how it ended ("pending", "ok", "disconnected", "other")
NoOrch ==
    [fn |-> "none", pc |-> "none", caller |-> "none", operation |-> "",
     byteLength |-> 0, sizes |-> <<>>, i |-> 0, tried |-> {}, lastErr |-> NoErr,
     result |-> FALSE, err |-> NoErr, attempts |-> <<>>]

\* done is the history of the run: the steps of the script that have completed;
\* run numbers the runs of flash
NoFlash == [status |-> "none", step |-> 0, transferSize |-> 0, err |-> NoErr,
            message |-> "", done |-> {}, run |-> 0]

(***************************************************************************)
(* One DfuDevice method called on its own: do_download with every small    *)
(* image and transfer size, dfuseErase and dfuseSetAddress with the        *)
(* addresses of the flash layout.                                          *)
(***************************************************************************)
\* main image base 0x08004000, its pages, and the bootstub base 0x08000000
MainBase == 134234112
MainPage2 == 134250496
MainPage3 == 134266880
BootstubBase == 134217728

Addresses == {MainBase, MainPage2, MainPage3, BootstubBase}

InitCall ==
    /\ call \in
         {do_download("none", x, l, m, f) :
              x \in 1..MaxXfer, l \in 0..MaxLen, m \in BOOLEAN, f \in 2..MaxFirstBlock}
         \cup {dfuseCall("none", op, a) :
                   op \in {"dfuseErase", "dfuseSetAddress"}, a \in Addresses}
    /\ dnloads = <<>>
    /\ progress = <<>>
    /\ orch = NoOrch
    /\ fl = NoFlash
    /\ wire = <<>>
    /\ bus = NoBus
    /\ background = <<>>
    /\ dev = AnyDevice
    /\ connected = TRUE
    /\ lastStatus = NoAnswer
    /\ pandaBuffer = 0
    /\ bootstubBuffer = 0

NextCall ==
    \/ abortToIdle_ABORT
    \/ abortToIdle_getState
    \/ abortToIdle_CLRSTATUS
    \/ dfuse_dnloadBlock
    \/ do_download_dnloadBlock
    \/ do_download_ZLP
    \/ pollUntil_getStatus
    \/ pollUntil_sleep
    \/ do_download_finalStatus

SpecCall == InitCall /\ [][NextCall]_vars

(***************************************************************************)
(* One DfuDevice method called on a device that follows the DFU state      *)
(* machine, in every state the device may be in: dfuseErase and            *)
(* dfuseSetAddress, and abortToIdle called twice in a row.                 *)
(***************************************************************************)
DeviceStates == appIDLE..dfuERROR

\* the second of two abortToIdle calls made one after the other, once the first is
\* over
abortToIdle_again ==
    /\ call.op = "abortToIdle"
    /\ call.pc \in {"returned", "threw"}
    /\ call.first = "none"
    /\ call' = [abortToIdleCall(call.caller) EXCEPT !.entered = call.entered,
                                                    !.first = call.pc]
    /\ UNCHANGED <<background, bus, dev, connected, dnloads, progress, orch, fl, wire, lastStatus, pandaBuffer, bootstubBuffer>>

InitDevice ==
    /\ dev \in DeviceStates
    /\ call \in
         {[c EXCEPT !.entered = dev] :
              c \in {abortToIdleCall("none")}
                    \cup {dfuseCall("none", op, a) :
                              op \in {"dfuseErase", "dfuseSetAddress"}, a \in Addresses}}
    /\ dnloads = <<>>
    /\ progress = <<>>
    /\ orch = NoOrch
    /\ fl = NoFlash
    /\ wire = <<>>
    /\ bus = NoBus
    /\ background = <<>>
    /\ connected = TRUE
    /\ lastStatus = NoAnswer
    /\ pandaBuffer = 0
    /\ bootstubBuffer = 0

NextDevice ==
    \/ abortToIdle_ABORT
    \/ abortToIdle_getState
    \/ abortToIdle_CLRSTATUS
    \/ abortToIdle_again
    \/ dfuse_dnloadBlock
    \/ pollUntil_getStatus
    \/ pollUntil_sleep

SpecDevice == InitDevice /\ [][NextDevice]_vars

(***************************************************************************)
(* DfuDevice.getTransferSize: the two reads of the configuration           *)
(* descriptor and the walk over its records.  Bytes are numbered from 0,   *)
(* as in the DataView.                                                     *)
(***************************************************************************)
\* the 9 bytes that head a configuration descriptor of total bytes
ConfigHeader(total) == <<9, 2, total % 256, total \div 256, 1, 1, 0, 128, 50>>

\* an interface record: bLength 9, bDescriptorType 4
InterfaceRecord(intfNum, alt, cls, subcls, proto) ==
    <<9, 4, intfNum, alt, 0, cls, subcls, proto, 0>>

\* a DFU functional record of DFU 1.1: bLength 9, bDescriptorType 0x21
FunctionalRecord(wTransferSize) ==
    <<9, 33, 11, 255, 0, wTransferSize % 256, wTransferSize \div 256, 26, 1>>

\* an endpoint record: bLength 7, bDescriptorType 5
EndpointRecord == <<7, 5, 129, 2, 64, 0, 0>>

\* whole records of a configuration descriptor
WholeRecords ==
    {InterfaceRecord(0, 0, 254, 1, 2), InterfaceRecord(1, 0, 254, 1, 2),
     InterfaceRecord(0, 1, 254, 1, 2), InterfaceRecord(0, 0, 254, 1, 1),
     FunctionalRecord(1024), FunctionalRecord(0), EndpointRecord}

\* records that are not whole: a length below 2, an interface record and a
\* functional record that end before the fields read, a length past the end
BrokenRecords == {<<1, 5>>, <<4, 4, 0, 0>>, <<3, 33, 0>>, <<20, 5>>}

\* the (interfaceNumber, alternateSetting) of this.settings
Settings == {<<0, 0>>, <<1, 0>>}

RECURSIVE Flatten(_)
Flatten(records) ==
    IF records = <<>> THEN <<>> ELSE Head(records) \o Flatten(Tail(records))

\* what the device sends for its configuration descriptor: the header and the
\* records, less the last cut bytes
DescriptorBytes(records, cut) ==
    LET body == Flatten(records)
        all == ConfigHeader(9 + Len(body)) \o body
    IN  SubSeq(all, 1, Len(all) - cut)

\* DataView.getUint8(i) / getUint16(i, true) can be read (no RangeError)
InView(bytes, i, n) == i + n <= Len(bytes)

getUint8(bytes, i) == bytes[i + 1]

getUint16_BigEndian(bytes, i) == 256 * bytes[i + 1] + bytes[i + 2]

getUint16(bytes, i) == bytes[i + 1] + 256 * bytes[i + 2]

\* dev.getTransferSize(), up to the first read
getTransferSize(caller, records, cut, settings) ==
    [NoCall EXCEPT !.op = "getTransferSize", !.pc = "first", !.caller = caller,
                   !.records = records, !.cut = cut, !.settings = settings]

\* const first = await this.device.controlTransferIn(..., 4), and wTotalLength
getTransferSize_first ==
    /\ call.pc = "first"
    /\ \E o \in Outcomes : Transfer(o, Standard(GET_DESCRIPTOR), NoAnswer) /\
         (LET first == SubSeq(DescriptorBytes(call.records, call.cut), 1,
                              Min(4, Len(DescriptorBytes(call.records, call.cut))))
          IN  call' = IF o # "ok" THEN Throw(call, TransferError(o))
                      ELSE IF ~InView(first, 2, 2)
                      THEN Throw(call, Err("RangeError", -1, -1))
                      ELSE [call EXCEPT !.pc = "full",
                                        !.wTotalLength = getUint16(first, 2)])
    /\ UNCHANGED <<background, dnloads, progress, orch, fl, wire, lastStatus, pandaBuffer, bootstubBuffer>>

\* const full = await this.device.controlTransferIn(..., wTotalLength), and the
\* DataView over it; offset = 9, inTargetIntf = false
getTransferSize_full ==
    /\ call.pc = "full"
    /\ \E o \in Outcomes : Transfer(o, Standard(GET_DESCRIPTOR), NoAnswer) /\
         (LET all == DescriptorBytes(call.records, call.cut)
          IN  call' = IF o # "ok" THEN Throw(call, TransferError(o))
                      ELSE [call EXCEPT !.pc = "walk",
                               !.bytes = SubSeq(all, 1, Min(call.wTotalLength, Len(all))),
                               !.offset = 9, !.inTargetIntf = FALSE])
    /\ UNCHANGED <<background, dnloads, progress, orch, fl, wire, lastStatus, pandaBuffer, bootstubBuffer>>

\* the slip of taking any DFU-mode interface for the target
InTarget_AnyInterface(bytes, offset, settings) ==
    /\ getUint8(bytes, offset + 5) = 254
    /\ getUint8(bytes, offset + 6) = 1
    /\ getUint8(bytes, offset + 7) = 2

\* inTargetIntf = intfNum === interfaceNumber && alt === alternateSetting &&
\* cls === 0xfe && subcls === 0x01 && proto === 0x02
InTarget(bytes, offset, settings) ==
    /\ getUint8(bytes, offset + 2) = settings[1]
    /\ getUint8(bytes, offset + 3) = settings[2]
    /\ getUint8(bytes, offset + 5) = 254
    /\ getUint8(bytes, offset + 6) = 1
    /\ getUint8(bytes, offset + 7) = 2

\* return with the transfer size
ReturnSize(c, size) == [Return(c) EXCEPT !.result = size]

\* the slip return wTransferSize: a field of 0 is returned as it is
Walk_NoDefault(c) ==
    IF ~(c.offset + 2 <= Len(c.bytes)) THEN ReturnSize(c, 2048)
    ELSE LET bLength == getUint8(c.bytes, c.offset)
             bType == getUint8(c.bytes, c.offset + 1)
         IN  IF bLength < 2 THEN ReturnSize(c, 2048)
             ELSE IF bType = 4
             THEN IF ~InView(c.bytes, c.offset + 7, 1)
                  THEN Throw(c, Err("RangeError", -1, -1))
                  ELSE [c EXCEPT !.inTargetIntf = InTarget(c.bytes, c.offset, c.settings),
                                 !.offset = c.offset + bLength]
             ELSE IF c.inTargetIntf /\ bType = 33
             THEN IF ~InView(c.bytes, c.offset + 5, 2)
                  THEN Throw(c, Err("RangeError", -1, -1))
                  ELSE ReturnSize(c, getUint16(c.bytes, c.offset + 5))
             ELSE [c EXCEPT !.offset = c.offset + bLength]

\* one turn of while (offset + 2 <= bytes.byteLength), or the fallback after it
Walk(c) ==
    IF ~(c.offset + 2 <= Len(c.bytes)) THEN ReturnSize(c, 2048)
    ELSE LET bLength == getUint8(c.bytes, c.offset)
             bType == getUint8(c.bytes, c.offset + 1)
         IN  IF bLength < 2 THEN ReturnSize(c, 2048)
             ELSE IF bType = 4
             THEN IF ~InView(c.bytes, c.offset + 7, 1)
                  THEN Throw(c, Err("RangeError", -1, -1))
                  ELSE [c EXCEPT !.inTargetIntf = InTarget(c.bytes, c.offset, c.settings),
                                 !.offset = c.offset + bLength]
             ELSE IF c.inTargetIntf /\ bType = 33
             THEN IF ~InView(c.bytes, c.offset + 5, 2)
                  THEN Throw(c, Err("RangeError", -1, -1))
                  ELSE LET wTransferSize == getUint16(c.bytes, c.offset + 5)
                       IN  ReturnSize(c, IF wTransferSize # 0 THEN wTransferSize ELSE 2048)
             ELSE [c EXCEPT !.offset = c.offset + bLength]

getTransferSize_walk ==
    /\ call.pc = "walk"
    /\ call' = Walk(call)
    /\ UNCHANGED <<background, bus, dev, connected, dnloads, progress, orch, fl, wire, lastStatus, pandaBuffer, bootstubBuffer>>

(***************************************************************************)
(* getTransferSize called on its own, with every descriptor of up to       *)
(* MaxRecords records, whole or not, less up to MaxCut bytes at its end.   *)
(***************************************************************************)
MaxRecords == 3

MaxCut == 3

RecordLists ==
    UNION {[1..n -> WholeRecords \cup BrokenRecords] : n \in 0..MaxRecords}

InitParse ==
    /\ call \in {getTransferSize("none", r, c, s) :
                    r \in RecordLists, c \in 0..MaxCut, s \in Settings}
    /\ dnloads = <<>>
    /\ progress = <<>>
    /\ orch = NoOrch
    /\ fl = NoFlash
    /\ wire = <<>>
    /\ bus = NoBus
    /\ background = <<>>
    /\ dev = AnyDevice
    /\ connected = TRUE
    /\ lastStatus = NoAnswer
    /\ pandaBuffer = 0
    /\ bootstubBuffer = 0

NextParse ==
    \/ getTransferSize_first
    \/ getTransferSize_full
    \/ getTransferSize_walk

SpecParse == InitParse /\ [][NextParse]_vars

(***************************************************************************)
(* The retry orchestrators: flashWithRetry and writeWithFallback.          *)
(***************************************************************************)
\* flashWithRetry: const transferSizes = [2048, 1024, 512, 256]
transferSizes == <<2048, 1024, 512, 256>>

\* flashWithRetry: const totalProgress = 0
totalProgress == 0

\* flashWithRetry(operation, data, dev, log), up to the head of its loop
flashWithRetry(caller, operation, byteLength) ==
    [NoOrch EXCEPT !.fn = "flashWithRetry", !.pc = "loop", !.caller = caller,
                   !.operation = operation, !.byteLength = byteLength,
                   !.sizes = transferSizes, !.i = 1]

\* writeWithFallback(dev, data, sizes, operation, log), up to the head of its loop
writeWithFallback(caller, byteLength, sizes, operation) ==
    [NoOrch EXCEPT !.fn = "writeWithFallback", !.pc = "loop", !.caller = caller,
                   !.operation = operation, !.byteLength = byteLength,
                   !.sizes = sizes, !.i = 1]

\* the slip of not consulting the set of the sizes tried
Tried_Never(o, s) == FALSE

\* tried.has(s)
Tried(o, s) == s \in o.tried

\* the slip of throwing lastErr whatever it is
AfterLoop_AlwaysThrows(o) == [o EXCEPT !.pc = "threw", !.err = o.lastErr]

\* the code after the for loop: every size was tried or skipped
AfterLoop(o) ==
    IF IncludesDisconnected(o.lastErr)
    THEN [o EXCEPT !.pc = "returned", !.result = TRUE]
    ELSE [o EXCEPT !.pc = "threw", !.err = o.lastErr]

\* for (const s of sizes): one turn of the loop up to the call of do_download, or
\* the end of the loop
orch_for ==
    /\ orch.pc = "loop"
    /\ IF orch.i > Len(orch.sizes)
       THEN /\ orch' = AfterLoop(orch)
            /\ UNCHANGED <<call, dnloads, progress, lastStatus>>
       ELSE LET s == orch.sizes[orch.i]
            IN  IF Tried(orch, s)
                THEN /\ orch' = [orch EXCEPT !.i = orch.i + 1]
                     /\ UNCHANGED <<call, dnloads, progress, lastStatus>>
                ELSE /\ orch' = [orch EXCEPT
                                   !.i = orch.i + 1, !.tried = orch.tried \cup {s},
                                   !.pc = "awaiting",
                                   !.attempts = Append(orch.attempts,
                                                  [size |-> s, end |-> "pending"])]
                     /\ call' = do_download("orch", s, orch.byteLength, TRUE, 2)
                     /\ dnloads' = <<>>
                     /\ progress' = <<>>
                     /\ lastStatus' = NoAnswer
    /\ UNCHANGED <<background, bus, dev, connected, fl, wire, pandaBuffer, bootstubBuffer>>

\* how the attempt in progress ended, entered in the history of the run
Ended(o, end) ==
    [o EXCEPT !.attempts = [o.attempts EXCEPT ![Len(o.attempts)].end = end]]

\* await dev.do_download(...) has returned: return true
orch_return ==
    /\ orch.pc = "awaiting"
    /\ call.caller = "orch" /\ call.pc = "returned"
    /\ orch' = [Ended(orch, "ok") EXCEPT !.pc = "returned", !.result = TRUE]
    /\ UNCHANGED <<background, bus, dev, connected, call, dnloads, progress, fl, wire, lastStatus, pandaBuffer, bootstubBuffer>>

\* the slip of a catch block that returns true whatever do_download threw
Catch_AnyErrorSucceeds(o, e) == [o EXCEPT !.lastErr = e, !.pc = "returned", !.result = TRUE]

\* the slip of never taking a disconnection for a success inside the loop
Catch_NeverSuccess(o, e) == [o EXCEPT !.lastErr = e, !.pc = "loop"]

\* the catch block of the loop: e is what do_download threw
Catch(o, e) ==
    IF IncludesDisconnected(e)
    THEN IF o.fn = "flashWithRetry" /\ totalProgress * 10 >= o.byteLength * 9
         THEN [o EXCEPT !.lastErr = e, !.pc = "returned", !.result = TRUE]
         ELSE IF Cardinality(o.tried) > 1
         THEN [o EXCEPT !.lastErr = e, !.pc = "returned", !.result = TRUE]
         ELSE [o EXCEPT !.lastErr = e, !.pc = "loop"]
    ELSE [o EXCEPT !.lastErr = e, !.pc = "loop"]

\* await dev.do_download(...) has thrown
orch_catch ==
    /\ orch.pc = "awaiting"
    /\ call.caller = "orch" /\ call.pc = "threw"
    /\ orch' = Catch(Ended(orch, IF IncludesDisconnected(call.err)
                                 THEN "disconnected" ELSE "other"), call.err)
    /\ UNCHANGED <<background, bus, dev, connected, call, dnloads, progress, fl, wire, lastStatus, pandaBuffer, bootstubBuffer>>

(***************************************************************************)
(* One orchestrator called on its own: flashWithRetry with its own ladder, *)
(* writeWithFallback with the ladder [transferSize, 2048, 1024, 512, 256]  *)
(* that flash builds, and with a ladder of one size.                       *)
(***************************************************************************)
\* longest image handed to a direct orchestrator call
MaxRetryLen == 600

RetryLens == {0, 1, MaxRetryLen}

\* transfer sizes a descriptor may report
TransferSizes == {1024, 2048}

\* const ladder = [transferSize, 2048, 1024, 512, 256]
Ladder(transferSize) == <<transferSize, 2048, 1024, 512, 256>>

InitRetry ==
    /\ orch \in
         {flashWithRetry("none", "panda.bin", l) : l \in RetryLens}
         \cup {writeWithFallback("none", l, Ladder(t), "panda.bin") :
                   l \in RetryLens, t \in TransferSizes}
         \cup {writeWithFallback("none", l, <<2048>>, "panda.bin") : l \in RetryLens}
    /\ call = NoCall
    /\ dnloads = <<>>
    /\ progress = <<>>
    /\ fl = NoFlash
    /\ wire = <<>>
    /\ bus = NoBus
    /\ background = <<>>
    /\ dev = AnyDevice
    /\ connected = TRUE
    /\ lastStatus = NoAnswer
    /\ pandaBuffer = 0
    /\ bootstubBuffer = 0

NextRetry ==
    \/ orch_for
    \/ orch_return
    \/ orch_catch
    \/ abortToIdle_ABORT
    \/ abortToIdle_getState
    \/ abortToIdle_CLRSTATUS
    \/ do_download_dnloadBlock
    \/ do_download_ZLP
    \/ pollUntil_getStatus
    \/ pollUntil_sleep

SpecRetry == InitRetry /\ [][NextRetry]_vars

(***************************************************************************)
(* Page.flash: the script of the flash run.  Every step is awaited before  *)
(* the next one starts; ms is the bound of withTimeout (0: not wrapped).   *)
(***************************************************************************)
\* the slip of a step that is awaited without withTimeout
Step_Untimed(op, addr, image, ms) == [op |-> op, addr |-> addr, image |-> image, ms |-> 0]

Step(op, addr, image, ms) == [op |-> op, addr |-> addr, image |-> image, ms |-> ms]

\* the slip of sending the exit command before the bootstub image is written
Script_DetachBeforeBootstub ==
    << Step("loadFirmware", 0, "", 0),
       Step("getTransferSize", 0, "", 0),
       Step("dfuseErase", MainBase, "", 10000),
       Step("dfuseErase", MainPage2, "", 10000),
       Step("dfuseErase", MainPage3, "", 10000),
       Step("dfuseSetAddress", MainBase, "", 5000),
       Step("flashWithRetry", 0, "panda.bin", 45000),
       Step("pause", 0, "", 0),
       Step("getState", 0, "", 0),
       Step("dfuseErase", BootstubBase, "", 10000),
       Step("dfuseSetAddress", BootstubBase, "", 5000),
       Step("DETACH", 0, "", 0),
       Step("flashWithRetry", 0, "bootstub.panda.bin", 30000) >>

Script ==
    << Step("loadFirmware", 0, "", 0),
       Step("getTransferSize", 0, "", 0),
       Step("dfuseErase", MainBase, "", 10000),
       Step("dfuseErase", MainPage2, "", 10000),
       Step("dfuseErase", MainPage3, "", 10000),
       Step("dfuseSetAddress", MainBase, "", 5000),
       Step("flashWithRetry", 0, "panda.bin", 45000),
       Step("pause", 0, "", 0),
       Step("getState", 0, "", 0),
       Step("dfuseErase", BootstubBase, "", 10000),
       Step("dfuseSetAddress", BootstubBase, "", 5000),
       Step("flashWithRetry", 0, "bootstub.panda.bin", 30000),
       Step("DETACH", 0, "", 0) >>

\* the buffer that flash hands to flashWithRetry for an image
BufferOf(image) == IF image = "panda.bin" THEN pandaBuffer ELSE bootstubBuffer

\* the slip of one message for every error
Failed_OneMessage(f, e) == [f EXCEPT !.status = "failed", !.err = e, !.message = "failed"]

\* the catch block of flash: the message shown for the error e
Failed(f, e) ==
    [f EXCEPT !.status = "failed", !.err = e,
              !.message = IF IncludesTimedOut(e) THEN "timed out"
                          ELSE IF IncludesDisconnected(e) THEN "likely completed"
                          ELSE "failed"]

\* the step in progress
Current == Script[fl.step]

Running(op) == fl.status = "running" /\ fl.step <= Len(Script) /\ Current.op = op

\* the step in progress has completed without an error (for the history of the run)
Succeeded ==
    IF fl.step < 1 \/ fl.step > Len(Script) THEN FALSE
    ELSE IF Current.op = "flashWithRetry"
    THEN orch.caller = "flash" /\ orch.pc = "returned" /\ orch.result
    ELSE IF Current.op \in {"dfuseErase", "dfuseSetAddress"}
    THEN call.caller = "flash" /\ call.pc = "returned"
    ELSE TRUE

\* flash goes on after its step in progress has completed: it starts step n of
\* the script, up to the first await of that step, or ends with success
Begin(f, n) ==
    IF n > Len(Script)
    THEN /\ fl' = [f EXCEPT !.status = "success", !.step = n, !.message = "completed",
                            !.done = f.done \cup (IF Succeeded THEN {f.step} ELSE {})]
         /\ UNCHANGED <<call, dnloads, progress, orch, lastStatus>>
    ELSE /\ fl' = [f EXCEPT !.step = n,
                            !.done = f.done \cup (IF Succeeded THEN {f.step} ELSE {})]
         /\ IF Script[n].op \in {"dfuseErase", "dfuseSetAddress"}
            THEN /\ call' = dfuseCall("flash", Script[n].op, Script[n].addr)
                 /\ dnloads' = <<>>
                 /\ progress' = <<>>
                 /\ lastStatus' = NoAnswer
                 /\ orch' = NoOrch
            ELSE IF Script[n].op = "flashWithRetry"
            THEN /\ orch' = flashWithRetry("flash", Script[n].image, BufferOf(Script[n].image))
                 /\ UNCHANGED <<call, dnloads, progress, lastStatus>>
            ELSE UNCHANGED <<call, dnloads, progress, orch, lastStatus>>

\* the Flash Firmware button: flash() with a device connected and both images ready
flash ==
    /\ fl.status = "idle"
    /\ fl' = [fl EXCEPT !.status = "running", !.step = 1]
    /\ UNCHANGED <<background, bus, dev, connected, call, dnloads, progress, orch, wire, lastStatus, pandaBuffer, bootstubBuffer>>

\* const { pandaBuffer, bootstubBuffer } = await loadFirmware()
flash_loadFirmware ==
    /\ Running("loadFirmware")
    /\ \E ok \in BOOLEAN :
         IF ok THEN Begin(fl, fl.step + 1)
         ELSE /\ fl' = Failed(fl, Err("load", -1, -1))
              /\ UNCHANGED <<call, dnloads, progress, orch, lastStatus>>
    /\ UNCHANGED <<background, bus, dev, connected, wire, pandaBuffer, bootstubBuffer>>

\* const transferSize = await dfuDevice.getTransferSize()
flash_getTransferSize ==
    /\ Running("getTransferSize")
    /\ \E o \in Outcomes, size \in TransferSizes : Transfer(o, Standard(GET_DESCRIPTOR), NoAnswer) /\
         (IF o = "ok" THEN Begin([fl EXCEPT !.transferSize = size], fl.step + 1)
         ELSE /\ fl' = Failed(fl, TransferError(o))
              /\ UNCHANGED <<call, dnloads, progress, orch, lastStatus>>)
    /\ UNCHANGED <<background, wire, pandaBuffer, bootstubBuffer>>

\* the promise that the step in progress awaits has settled
Settled ==
    IF Current.op = "flashWithRetry"
    THEN orch.caller = "flash" /\ orch.pc \in {"returned", "threw"}
    ELSE call.caller = "flash" /\ call.pc \in {"returned", "threw"}

\* the slip of going on whether the awaited promise resolved or was rejected
Resolved_Always == TRUE

\* the awaited promise resolved (it was not rejected)
Resolved ==
    IF Current.op = "flashWithRetry" THEN orch.pc = "returned" ELSE call.pc = "returned"

\* await withTimeout(...) of an erase, a set-address or an image write has returned
flash_await ==
    /\ fl.status = "running" /\ fl.step <= Len(Script)
    /\ Current.op \in {"dfuseErase", "dfuseSetAddress", "flashWithRetry"}
    /\ Settled
    /\ IF ~Resolved
       THEN /\ fl' = Failed(fl, IF Current.op = "flashWithRetry" THEN orch.err ELSE call.err)
            /\ UNCHANGED <<call, dnloads, progress, orch, lastStatus>>
       ELSE IF Current.op = "flashWithRetry" /\ ~orch.result
       THEN /\ fl' = Failed(fl, Err("write", -1, -1))
            /\ UNCHANGED <<call, dnloads, progress, orch, lastStatus>>
       ELSE Begin(fl, fl.step + 1)
    /\ UNCHANGED <<background, bus, dev, connected, wire, pandaBuffer, bootstubBuffer>>

\* withTimeout: the timer fires before the wrapped promise settles; the promise is
\* left running
withTimeout_reject ==
    /\ fl.status = "running" /\ fl.step <= Len(Script)
    /\ Current.ms > 0
    /\ ~Settled
    /\ fl' = Failed(fl, Err("timeout", -1, -1))
    /\ UNCHANGED <<background, bus, dev, connected, call, dnloads, progress, orch, wire, lastStatus, pandaBuffer, bootstubBuffer>>

\* await new Promise((resolve) => setTimeout(resolve, 1000))
flash_pause ==
    /\ Running("pause")
    /\ Begin(fl, fl.step + 1)
    /\ UNCHANGED <<background, bus, dev, connected, wire, pandaBuffer, bootstubBuffer>>

\* try { await dfuDevice.getState() } catch (e) { }
flash_getState ==
    /\ Running("getState")
    /\ \E o \in Outcomes, s \in ReportedStates : Transfer(o, Class(GETSTATE, 0), Answer(-1, s)) /\ Begin(fl, fl.step + 1)
    /\ UNCHANGED <<background, wire, pandaBuffer, bootstubBuffer>>

\* try { await dfuDevice.requestOut?.(0x00, new ArrayBuffer(0), 1000) } catch (e) { }
flash_DETACH ==
    /\ Running("DETACH")
    /\ \E o \in Outcomes : Transfer(o, Class(DETACH, 0), NoAnswer) /\ (Begin(fl, fl.step + 1))
    /\ wire' = Logged(wire, StreamEvent("DETACH"))
    /\ UNCHANGED <<background, pandaBuffer, bootstubBuffer>>

(***************************************************************************)
(* The page with a DFU device connected and both images picked.            *)
(***************************************************************************)
\* a flash page of the device: 16 KiB
PageSize == 16384

\* lengths of the main image and of the bootstub image handed to flash: an empty
\* main image, and a main image of more than one block
Images == {<<0, 1>>, <<2049, 1>>}

\* a bootstub image of more than a page
OversizeImages == {<<1, PageSize + 1>>}

Init ==
    /\ call = NoCall
    /\ dnloads = <<>>
    /\ progress = <<>>
    /\ orch = NoOrch
    /\ fl = [NoFlash EXCEPT !.status = "idle"]
    /\ wire = <<>>
    /\ bus = NoBus
    /\ background = <<>>
    /\ dev = AnyDevice
    /\ connected = TRUE
    /\ lastStatus = NoAnswer
    /\ \E im \in Images : pandaBuffer = im[1] /\ bootstubBuffer = im[2]

Next ==
    \/ flash
    \/ flash_loadFirmware
    \/ flash_getTransferSize
    \/ flash_await
    \/ withTimeout_reject
    \/ flash_pause
    \/ flash_getState
    \/ flash_DETACH
    \/ orch_for
    \/ orch_return
    \/ orch_catch
    \/ abortToIdle_ABORT
    \/ abortToIdle_getState
    \/ abortToIdle_CLRSTATUS
    \/ dfuse_dnloadBlock
    \/ do_download_dnloadBlock
    \/ do_download_ZLP
    \/ pollUntil_getStatus
    \/ pollUntil_sleep

Spec == Init /\ [][Next]_vars

\* the page with a bootstub image that is longer than one flash page
InitOversize ==
    /\ call = NoCall
    /\ dnloads = <<>>
    /\ progress = <<>>
    /\ orch = NoOrch
    /\ fl = [NoFlash EXCEPT !.status = "idle"]
    /\ wire = <<>>
    /\ bus = NoBus
    /\ background = <<>>
    /\ dev = AnyDevice
    /\ connected = TRUE
    /\ lastStatus = NoAnswer
    /\ \E im \in OversizeImages : pandaBuffer = im[1] /\ bootstubBuffer = im[2]

SpecOversize == InitOversize /\ [][Next]_vars

(***************************************************************************)
(* The page with its two buttons in use while a flash run is under way.    *)
(* The Flash Firmware button is enabled whenever both images are picked,   *)
(* so that flash() can be called again while an earlier call of it is      *)
(* suspended at an await; Disconnect closes the device under whatever is   *)
(* running.  The device follows the DFU state machine.                     *)
(***************************************************************************)
\* how many more times Flash Firmware is pressed after the first
MaxPresses == 1

\* the flash() callback that is running, as it is kept while another one runs
Suspended ==
    [call |-> call, dnloads |-> dnloads, progress |-> progress, orch |-> orch,
     fl |-> fl, wire |-> wire, lastStatus |-> lastStatus]

\* a suspended callback has requests left to issue: its run goes on, or a promise
\* that its withTimeout left behind does
Unfinished(s) ==
    \/ s.fl.status = "running"
    \/ s.call.pc \notin {"none", "returned", "threw"}
    \/ s.orch.pc \notin {"none", "returned", "threw"}

\* the callbacks that stay suspended when the running one lets another one run: a
\* callback with nothing left to do is gone
Kept == IF Unfinished(Suspended) THEN <<Suspended>> ELSE <<>>

\* <Button onClick={flash} disabled={!isFirmwareReady()}>: flash() called again; if
\* (!dfuDevice) return.  The button is enabled whether or not a run is under way:
\* the presses of the model are those made while the earlier call of flash() is
\* running or has left a promise running
flash_again ==
    /\ fl.status \in {"running", "failed", "success"}
    /\ Unfinished(Suspended)
    /\ fl.run < MaxPresses
    /\ \A i \in 1..Len(background) : background[i].fl.run < fl.run
    /\ bus.opened
    /\ background' = background \o Kept
    /\ fl' = [NoFlash EXCEPT !.status = "running", !.step = 1,
                         !.run = fl.run + 1]
    /\ call' = NoCall
    /\ dnloads' = <<>>
    /\ progress' = <<>>
    /\ orch' = NoOrch
    /\ wire' = <<>>
    /\ lastStatus' = NoAnswer
    /\ UNCHANGED <<bus, dev, connected, pandaBuffer, bootstubBuffer>>

\* the event loop: the callback that runs next is a suspended one, whose awaited
\* transfer or timer has completed
resume ==
    /\ \E i \in 1..Len(background) :
          /\ Unfinished(background[i])
          /\ background' = SubSeq(background, 1, i - 1) \o Kept
                              \o SubSeq(background, i + 1, Len(background))
          /\ call' = background[i].call
          /\ dnloads' = background[i].dnloads
          /\ progress' = background[i].progress
          /\ orch' = background[i].orch
          /\ fl' = background[i].fl
          /\ wire' = background[i].wire
          /\ lastStatus' = background[i].lastStatus
    /\ UNCHANGED <<bus, dev, connected, pandaBuffer, bootstubBuffer>>

\* the Disconnect button: await dfuDevice?.close(); setDfuDevice(null)
disconnect ==
    /\ bus.opened
    /\ fl.status # "idle"
    /\ bus' = [bus EXCEPT !.opened = FALSE]
    /\ UNCHANGED <<background, dev, connected, call, dnloads, progress, orch, fl, wire, lastStatus, pandaBuffer, bootstubBuffer>>

\* lengths of the images of the page whose buttons are in use
PressImages == {<<0, 1>>}

InitPress ==
    /\ call = NoCall
    /\ dnloads = <<>>
    /\ progress = <<>>
    /\ orch = NoOrch
    /\ fl = [NoFlash EXCEPT !.status = "idle"]
    /\ wire = <<>>
    /\ bus = NoBus
    /\ background = <<>>
    /\ dev = dfuIDLE
    /\ connected = TRUE
    /\ lastStatus = NoAnswer
    /\ \E im \in PressImages : pandaBuffer = im[1] /\ bootstubBuffer = im[2]

NextPress ==
    \/ flash
    \/ flash_again
    \/ resume
    \/ disconnect
    \/ flash_loadFirmware
    \/ flash_getTransferSize
    \/ flash_await
    \/ withTimeout_reject
    \/ flash_pause
    \/ flash_getState
    \/ flash_DETACH
    \/ orch_for
    \/ orch_return
    \/ orch_catch
    \/ abortToIdle_ABORT
    \/ abortToIdle_getState
    \/ abortToIdle_CLRSTATUS
    \/ dfuse_dnloadBlock
    \/ do_download_dnloadBlock
    \/ do_download_ZLP
    \/ pollUntil_getStatus
    \/ pollUntil_sleep

SpecPress == InitPress /\ [][NextPress]_vars

(***************************************************************************)
(*                             PROPERTIES                                  *)
(***************************************************************************)
\* ceil(L / S)
Ceil(L, S) == (L + S - 1) \div S

\* the positions of the image that a payload holds, in order (byte i of the image is
\* named i, so that two payloads are equal exactly when they hold the same bytes)
PayloadBytes(p) == [i \in 1..p.len |-> p.off + i - 1]

RECURSIVE Concatenated(_)
\* the payloads of a sequence of DNLOADs, concatenated in order
Concatenated(d) ==
    IF d = <<>> THEN <<>>
    ELSE Concatenated(SubSeq(d, 1, Len(d) - 1)) \o PayloadBytes(d[Len(d)].data)

\* the bytes of an image of the given length
ImageBytes(L) == [i \in 1..L |-> i - 1]

\* a do_download call that has returned normally
DownloadReturned == call.op = "do_download" /\ call.pc = "returned"

\* C1: a do_download call that returns normally has issued exactly ceil(L / S)
\* DNLOADs with a non-empty payload cut from the image, and after them exactly one
\* zero-length DNLOAD (for L = 0: the zero-length DNLOAD alone).
C1_BlockCount ==
    DownloadReturned =>
        LET n == Ceil(call.byteLength, call.xferSize)
        IN  /\ Len(dnloads) = n + 1
            /\ \A k \in 1..n : dnloads[k].data.src = "view" /\ dnloads[k].data.len > 0
            /\ dnloads[n + 1].data = EmptyBuffer

\* a returned download of an image whose length is no multiple of the transfer size,
\* in three data blocks and the terminator
C1_Witness ==
    /\ DownloadReturned
    /\ call.byteLength = 5 /\ call.xferSize = 2
    /\ Len(dnloads) = 4

\* C2: the k-th DNLOAD of a do_download call carries block number
\* firstBlock + (k - 1), which is never 0 or 1; a DNLOAD with block number 0 is a
\* 5-byte command of dfuseErase or dfuseSetAddress, and those use no other number.
C2_BlockNumbers ==
    \A k \in 1..Len(dnloads) :
        /\ call.op = "do_download" =>
              /\ dnloads[k].blockNum = call.firstBlock + (k - 1)
              /\ dnloads[k].blockNum >= 2
              /\ dnloads[k].data.src # "cmd"
        /\ call.op \in {"dfuseErase", "dfuseSetAddress"} =>
              dnloads[k].blockNum = 0 /\ dnloads[k].data.src = "cmd"
        /\ dnloads[k].blockNum = 0 => call.op \in {"dfuseErase", "dfuseSetAddress"}

\* a download that started at block 3 and has issued three data blocks and the
\* terminator, the last with block number 6
C2_Witness ==
    /\ call.op = "do_download" /\ call.firstBlock = 3
    /\ Len(dnloads) = 4
    /\ dnloads[4].blockNum = 6 /\ dnloads[4].data = EmptyBuffer

\* C3: in a do_download call that returns normally the payloads of the data blocks,
\* concatenated in block order, are the bytes of the image; every data block but
\* the last holds S bytes, the last holds L - (ceil(L/S) - 1) * S, and the
\* zero-length block has number firstBlock + ceil(L/S).
C3_Payloads ==
    DownloadReturned =>
        LET L == call.byteLength
            S == call.xferSize
            n == Ceil(L, S)
        IN  /\ Concatenated(dnloads) = ImageBytes(L)
            /\ \A k \in 1..Len(dnloads) :
                  /\ k < n => dnloads[k].data.len = S
                  /\ k = n => dnloads[k].data.len = L - (n - 1) * S
                  /\ k > n => dnloads[k].data.len = 0 /\ dnloads[k].blockNum = call.firstBlock + n
            /\ \E k \in 1..Len(dnloads) : k > n

\* a returned download of 5 bytes in blocks of 2, 2 and 1 bytes
C3_Witness ==
    /\ DownloadReturned
    /\ call.byteLength = 5 /\ call.xferSize = 2
    /\ Len(dnloads) = 4
    /\ dnloads[2].data.len = 2 /\ dnloads[3].data.len = 1

\* the last DNLOAD of the call in progress was a data block, and the poll that
\* followed it has ended with a nonzero status code
DataBlockRefused ==
    /\ call.op = "do_download"
    /\ dnloads # <<>>
    /\ dnloads[Len(dnloads)].data.src = "view"
    /\ lastStatus.status > 0
    /\ lastStatus.state \in {dfuDNLOAD_IDLE, dfuERROR}

\* C4: when the poll after a data block of a do_download call ends with a nonzero
\* status code, the call has failed with an error that names the reported state and
\* status code; the refused block is the last DNLOAD of the call (no later data
\* block, no zero-length block) and no progress is reported for it.
C4_RefusedBlock ==
    DataBlockRefused =>
        /\ call.pc = "threw"
        /\ call.err = Err("download", lastStatus.state, lastStatus.status)
        /\ \A k \in 1..Len(dnloads) : dnloads[k].data.src = "view"
        /\ call.sent = dnloads[Len(dnloads)].data.off

\* the second data block of a download is refused with status 5 in dfuERROR
C4_Witness ==
    /\ DataBlockRefused
    /\ Len(dnloads) = 2
    /\ lastStatus.status = 5 /\ lastStatus.state = dfuERROR
    /\ call.pc = "threw"

\* C5: in one run of an orchestrator no two do_download attempts use the same
\* transfer size, also when the ladder holds a size more than once.
C5_NoSizeTwice ==
    \A j, k \in 1..Len(orch.attempts) :
        j # k => orch.attempts[j].size # orch.attempts[k].size

\* the ladder [2048, 2048, 1024, 512, 256] has been walked to its end in four attempts
C5_Witness ==
    /\ orch.sizes = <<2048, 2048, 1024, 512, 256>>
    /\ Len(orch.attempts) = 4
    /\ orch.pc = "threw"

\* C6: when the attempt with the first size tried by flashWithRetry fails by
\* disconnection, flashWithRetry does not return success at that point: it has more
\* untried sizes and goes on to the next one.
C6_FirstDisconnectionRetried ==
    ~ /\ orch.fn = "flashWithRetry"
      /\ Len(orch.attempts) = 1
      /\ orch.attempts[1].end = "disconnected"
      /\ orch.pc = "returned"

\* C7: when an attempt other than the first of the run fails by disconnection, the
\* orchestrator returns success at once and makes no further attempt.
C7_LaterDisconnectionSucceeds ==
    \A k \in 2..Len(orch.attempts) :
        orch.attempts[k].end = "disconnected" =>
            /\ k = Len(orch.attempts)
            /\ orch.pc = "returned"
            /\ orch.result = TRUE

\* the third attempt is cut by a disconnection after an acknowledged block, the
\* first two having failed otherwise
C7_Witness ==
    /\ Len(orch.attempts) = 3
    /\ orch.attempts[1].end = "other" /\ orch.attempts[2].end = "other"
    /\ orch.attempts[3].end = "disconnected"
    /\ call.sent > 0
    /\ orch.pc = "returned"

\* every distinct size of the ladder has been attempted and every attempt failed
Exhausted ==
    /\ orch.fn # "none"
    /\ {orch.sizes[i] : i \in 1..Len(orch.sizes)}
         = {orch.attempts[k].size : k \in 1..Len(orch.attempts)}
    /\ \A k \in 1..Len(orch.attempts) : orch.attempts[k].end \in {"disconnected", "other"}

\* C8: once every distinct size of the ladder has been attempted without success
\* and the orchestrator has left its loop, it has returned success if the last
\* attempt failed by disconnection, and has thrown the error of the last attempt
\* otherwise.
C8_Exhausted ==
    (Exhausted /\ orch.pc # "loop") =>
        IF orch.attempts[Len(orch.attempts)].end = "disconnected"
        THEN orch.pc = "returned" /\ orch.result = TRUE
        ELSE /\ orch.pc = "threw"
             /\ call.pc = "threw" /\ orch.err = call.err
             /\ ~IncludesDisconnected(orch.err)

\* four sizes failed, none by disconnection and the last with a refused block,
\* and the error of the last attempt is thrown
C8_Witness ==
    /\ Exhausted
    /\ Len(orch.attempts) = 4
    /\ orch.attempts[4].end = "other"
    /\ orch.pc = "threw"
    /\ orch.err.kind = "download"

\* what the device is asked to do in a complete flash run, but for the final DETACH
ExpectedWire ==
    << [opcode |-> 65, addr |-> MainBase, operation |-> ""],
       [opcode |-> 65, addr |-> MainPage2, operation |-> ""],
       [opcode |-> 65, addr |-> MainPage3, operation |-> ""],
       [opcode |-> 33, addr |-> MainBase, operation |-> ""],
       [opcode |-> -1, addr |-> -1, operation |-> "panda.bin"],
       [opcode |-> 65, addr |-> BootstubBase, operation |-> ""],
       [opcode |-> 33, addr |-> BootstubBase, operation |-> ""],
       [opcode |-> -1, addr |-> -1, operation |-> "bootstub.panda.bin"] >>

\* the step of the script that issues the k-th entry of ExpectedWire
StepOf(k) == IF k <= 5 THEN k + 2 ELSE k + 4

NotDetach(e) == e.operation # "DETACH"

\* C9: what the device has been asked to do in a flash run is at every moment a
\* prefix of: erase 0x08004000, erase 0x08008000, erase 0x0800C000, set address
\* 0x08004000, main image stream, erase 0x08000000, set address 0x08000000, bootstub
\* image stream; and when a step has reached the device, every step before it has
\* completed without an error.
C9_ScriptOrder ==
    LET seen == SelectSeq(wire, NotDetach)
    IN  /\ Len(seen) <= Len(ExpectedWire)
        /\ \A k \in 1..Len(seen) :
              /\ seen[k] = ExpectedWire[k]
              /\ \A n \in 1..(StepOf(k) - 1) : Script[n].op # "DETACH" => n \in fl.done

\* a flash run that ended with success after the device saw all eight steps
C9_Witness ==
    /\ fl.status = "success"
    /\ SelectSeq(wire, NotDetach) = ExpectedWire
    /\ pandaBuffer = 2049

\* the pages that hold a byte of [base, base + length)
PagesOf(base, length) ==
    IF length = 0 THEN {}
    ELSE {base - (base % PageSize) + i * PageSize :
              i \in 0..(((base % PageSize) + length - 1) \div PageSize)}

\* the page that an erase command at addr erases
PageAt(addr) == addr - (addr % PageSize)

BaseOf(operation) == IF operation = "panda.bin" THEN MainBase ELSE BootstubBase

\* the pages erased before entry k of the record, since the image stream before it
ErasedBefore(k) ==
    {PageAt(wire[j].addr) :
        j \in {i \in 1..(k - 1) :
                  /\ wire[i].opcode = 65
                  /\ \A m \in i..(k - 1) : wire[m].opcode # -1}}

\* C10: when an image is streamed, every 16 KiB page that holds a byte of
\* [base, base + length) of that image has been erased in that image's phase, and
\* the bootstub is never streamed over a page that holds main image data.
C10_PagesErased ==
    \A k \in 1..Len(wire) :
        (wire[k].opcode = -1 /\ wire[k].operation # "DETACH") =>
            /\ PagesOf(BaseOf(wire[k].operation), BufferOf(wire[k].operation))
                  \subseteq ErasedBefore(k)
            /\ wire[k].operation = "bootstub.panda.bin" =>
                  PagesOf(BootstubBase, bootstubBuffer)
                      \cap PagesOf(MainBase, pandaBuffer) = {}

\* C17 as claimed: once the device has refused an image data block with a nonzero
\* status, the run sends no further image data block and does not end in success.
C17_RefusalEndsRun ==
    (orch.lastErr.kind = "download") =>
        /\ ~(orch.pc = "awaiting" /\ dnloads # <<>> /\ dnloads[1].data.src = "view")
        /\ ~(orch.pc = "returned")

\* C17 as amended: a nonzero status that ends the poll after an image data block is
\* fatal to the do_download attempt: the attempt has thrown the error naming state
\* and status, and the refused block is its last DNLOAD; the orchestrator enters the
\* error as that of the attempt, and when it has no untried size left it throws it
\* and the flash run does not end in success.
C17_RefusalEndsAttempt ==
    (DataBlockRefused /\ call.caller = "orch") =>
        /\ call.pc = "threw"
        /\ call.err = Err("download", lastStatus.state, lastStatus.status)
        /\ call.sent = dnloads[Len(dnloads)].data.off
        /\ orch.pc \in {"awaiting", "loop", "threw"}
        /\ orch.pc # "awaiting" =>
              /\ orch.lastErr = call.err
              /\ orch.attempts[Len(orch.attempts)].end = "other"
        /\ orch.pc = "threw" =>
              /\ orch.err = call.err
              /\ orch.tried = {orch.sizes[i] : i \in 1..Len(orch.sizes)}
              /\ orch.caller = "flash" => fl.status \in {"running", "failed"}
              /\ (orch.caller = "flash" /\ fl.status = "failed") =>
                    fl.message \in {"failed", "timed out"}

\* the fourth size of flashWithRetry is refused at a data block, after three
\* attempts that failed, and flash has ended in failure with that error
C17_Witness ==
    /\ DataBlockRefused
    /\ orch.caller = "flash" /\ orch.pc = "threw"
    /\ Len(orch.attempts) = 4
    /\ fl.status = "failed" /\ fl.err = call.err

\* C18: in a flash run the first transfer size attempted for an image is the size
\* that getTransferSize returned at the start of the run.
C18_PreferredSizeFirst ==
    (orch.caller = "flash" /\ orch.attempts # <<>>) =>
        orch.attempts[1].size = fl.transferSize

\* C19: the sizes that writeWithFallback attempts with the ladder
\* [transferSize, 2048, 1024, 512, 256] are strictly decreasing in attempt order.
C19_LadderDescends ==
    (orch.fn = "writeWithFallback" /\ \E t \in TransferSizes : orch.sizes = Ladder(t)) =>
        \A k \in 1..(Len(orch.attempts) - 1) :
            orch.attempts[k].size > orch.attempts[k + 1].size

\* the entries of the record that the steps of the script up to step n issue
IssuedUpTo(n) == {k \in 1..Len(ExpectedWire) : StepOf(k) <= n}

\* C20: when the timer of withTimeout fires before the wrapped step settles, the
\* flash run has ended in a failure whose message is that of a timeout, and neither
\* that of a protocol failure nor that of a disconnection; nothing of a later step of
\* the script reaches the device, the run stays as it ended, and the device session
\* is left open.
C20_Timeout ==
    /\ [](IncludesTimedOut(fl.err) =>
            /\ fl.status = "failed"
            /\ fl.message = "timed out"
            /\ fl.message \notin {"failed", "likely completed", "completed"}
            /\ Script[fl.step].ms > 0
            /\ wire = SelectSeq(wire, NotDetach)
            /\ Len(wire) \in IssuedUpTo(fl.step) \cup {0}
            /\ bus.opened)
    /\ [][IncludesTimedOut(fl.err) => fl' = fl]_vars

\* the write of panda.bin timed out, and flashWithRetry, left running, has returned
\* since
C20_Witness ==
    /\ IncludesTimedOut(fl.err)
    /\ Script[fl.step].image = "panda.bin"
    /\ orch.pc = "returned"

\* a record list is that of a configuration descriptor: whole records, nothing cut
WholeDescriptor(c) ==
    /\ c.cut = 0
    /\ \A k \in 1..Len(c.records) : c.records[k] \in WholeRecords

\* some functional record (type 0x21) lies inside the target interface: the last
\* interface record before it has the interface number and alternate setting of
\* the settings and class 0xFE, subclass 0x01, protocol 0x02
FunctionalInTarget(records, settings) ==
    \E i, j \in 1..Len(records) :
        /\ i < j
        /\ records[i] = InterfaceRecord(settings[1], settings[2], 254, 1, 2)
        /\ records[j][2] = 33
        /\ \A k \in (i + 1)..(j - 1) : records[k][2] # 4

\* C14: for a configuration descriptor (header and whole records) in which no
\* functional record lies inside the target interface, getTransferSize, once both
\* reads have been answered, returns 2048 and throws nothing.
C14_DefaultSize ==
    (/\ call.op = "getTransferSize"
     /\ WholeDescriptor(call)
     /\ ~FunctionalInTarget(call.records, call.settings)) =>
        /\ call.pc = "threw" => call.err.kind \in {"transfer", "disconnected"}
        /\ call.pc = "returned" => call.result = 2048

\* a descriptor whose functional record of 1024 bytes lies in another interface than
\* the target has been walked to its end
C14_Witness ==
    /\ call.op = "getTransferSize" /\ call.pc = "returned"
    /\ call.settings = <<0, 0>>
    /\ call.cut = 0
    /\ call.records = <<InterfaceRecord(0, 0, 254, 1, 2), InterfaceRecord(1, 0, 254, 1, 2),
                        FunctionalRecord(1024)>>
    /\ call.result = 2048

\* C15: whatever bytes the device returns as its configuration descriptor,
\* getTransferSize returns a transfer size and raises no error over them.
C15_MalformedIsNotFound ==
    call.op = "getTransferSize" =>
        /\ call.err.kind # "RangeError"
        /\ call.pc = "returned" => call.result > 0

(***************************************************************************)
(* C16.  Whenever the client issues a DNLOAD, a CLRSTATUS or a DETACH, the *)
(* device state it read most recently (by GETSTATE or GETSTATUS) is        *)
(* dfuIDLE or dfuDNLOAD_IDLE.  bus.request is the request issued last and  *)
(* bus.before the state that had been read when it was issued.            *)
(***************************************************************************)
C16_IssuedWhenIdle ==
    (bus.request.requestType = "class" /\ bus.request.request \in {DNLOAD, CLRSTATUS, DETACH})
        => bus.before \in {dfuIDLE, dfuDNLOAD_IDLE}

(***************************************************************************)
(* C12.  Every dfuseErase and dfuseSetAddress call performs abortToIdle    *)
(* before it sends its command: the command is issued with dfuIDLE read    *)
(* last and the device in dfuIDLE.  A call that starts with the device in  *)
(* dfuERROR is not failed by that error: once its ABORT has gone through,  *)
(* CLRSTATUS clears the error and the call returns, unless the device      *)
(* refuses the command itself.                                             *)
(***************************************************************************)
DfuseCall == call.op \in {"dfuseErase", "dfuseSetAddress"}

BothOver == call.op = "abortToIdle" /\ call.first # "none" /\ call.pc \in {"returned", "threw"}

C13_BothComplete ==
    BothOver => call.first = "returned" /\ call.pc = "returned" /\ dev = dfuIDLE

\* C13 as it holds: an abortToIdle call that completes leaves the device in dfuIDLE,
\* and a second call made right after a completed one completes too, the device
\* still in dfuIDLE; from some device states the first call does not complete
C13_IdempotentOnceIdle ==
    call.op = "abortToIdle" =>
        /\ call.pc = "returned" => dev = dfuIDLE /\ bus.observed = dfuIDLE
        /\ call.first = "returned" => call.pc # "threw"

\* both calls have completed on a device that was not in dfuIDLE
C13_Witness ==
    /\ BothOver
    /\ call.first = "returned"
    /\ call.pc = "returned"
    /\ call.entered \in {dfuDNLOAD_IDLE, dfuERROR}

(***************************************************************************)
(* C11.  Whatever the user does (Flash Firmware pressed again, Disconnect) *)
(* and whenever a timer of withTimeout fires, at most one DfuDevice        *)
(* operation is in progress on the device: no control transfer of one      *)
(* operation is issued between two control transfers of another operation. *)
(* bus.ops holds the operations that issued the last requests, an          *)
(* operation once for requests it issued in a row: an operation that is    *)
(* there twice had a request of another one issued between two of its own. *)
(***************************************************************************)
C11_OneOperationAtATime == ~(Len(bus.ops) = 3 /\ bus.ops[1] = bus.ops[3])

(***************************************************************************)
(* The exit command of a flash run.                                        *)
(***************************************************************************)
\* the step of the script that writes the bootstub image (phase 2)
Phase2 == CHOOSE n \in 1..Len(Script) :
              Script[n].op = "flashWithRetry" /\ Script[n].image = "bootstub.panda.bin"

\* the last request on the bus is the exit command
DetachAttempted == bus.request = Class(DETACH, 0)

\* C21: the DETACH request is issued only after the write of the bootstub image has
\* returned success, and once it has been issued the run has ended with the message
\* of success, whatever became of the request
C21_DetachAfterPhase2 ==
    DetachAttempted =>
        /\ Phase2 \in fl.done
        /\ fl.status = "success"
        /\ fl.message = "completed"

\* a run whose exit command found the device gone, and which reports success
C21_Witness ==
    /\ DetachAttempted
    /\ ~connected
    /\ fl.status = "success"

(***************************************************************************)
(* DfuDevice.open: the session of this.device (opened, configuration,      *)
(* claimed interface, alternate setting) is kept in bus.  wire records the *)
(* WebUSB calls that the open() in progress has issued, and call.entered   *)
(* the session that it found.                                              *)
(***************************************************************************)
\* this.settings.configuration.configurationValue
ConfigurationValue == 1

\* most alternate settings of the stored interface
MaxAlternates == 2

\* the session of this.device
Session(b) ==
    [opened |-> b.opened, configuration |-> b.configuration, claimed |-> b.claimed,
     alternate |-> b.alternate, alternates |-> b.alternates]

\* the devices that open() can be handed: an interface is claimed only on an open
\* device with a configuration
Sessions ==
    {b \in {[NoBus EXCEPT !.opened = o, !.configuration = c, !.claimed = k,
                          !.alternate = a, !.alternates = n] :
               o \in BOOLEAN, c \in 0..2, k \in BOOLEAN, a \in -1..1, n \in 1..MaxAlternates} :
        b.claimed => b.opened /\ b.configuration # 0}

\* the slip of selecting the alternate setting on every call
NeedsSelect_Always(b, alt) == TRUE

\* !intf.alternate || intf.alternate.alternateSetting !== alt || intf.alternates.length > 1
NeedsSelect(b, alt) == b.alternate = -1 \/ b.alternate # alt \/ b.alternates > 1

\* open() from its k-th test on, up to the WebUSB call that it awaits next
OpenFrom(c, b, k) ==
    IF k <= 1 /\ ~b.opened THEN [c EXCEPT !.pc = "open"]
    ELSE IF k <= 2 /\ b.configuration # ConfigurationValue
    THEN [c EXCEPT !.pc = "selectConfiguration"]
    ELSE IF k <= 3 /\ ~b.claimed THEN [c EXCEPT !.pc = "claimInterface"]
    ELSE IF k <= 4 /\ NeedsSelect(b, c.settings[2])
    THEN [c EXCEPT !.pc = "selectAlternateInterface"]
    ELSE Return(c)

\* dev.open() on the session b with the stored alternate setting alt
open(b, alt) ==
    OpenFrom([NoCall EXCEPT !.op = "open", !.settings = <<0, alt>>, !.entered = Session(b)],
             b, 1)

\* await this.device.open()
open_open ==
    /\ call.op = "open" /\ call.pc = "open"
    /\ \E ok \in BOOLEAN :
         IF ok
         THEN /\ bus' = [bus EXCEPT !.opened = TRUE]
              /\ call' = OpenFrom(call, bus', 2)
         ELSE /\ bus' = bus
              /\ call' = Throw(call, Err("open", -1, -1))
    /\ wire' = Append(wire, StreamEvent("open"))
    /\ UNCHANGED <<background, dev, connected, dnloads, progress, orch, fl, lastStatus, pandaBuffer, bootstubBuffer>>

\* await this.device.selectConfiguration(...): the interfaces of the new
\* configuration are unclaimed, with their default alternate setting
open_selectConfiguration ==
    /\ call.op = "open" /\ call.pc = "selectConfiguration"
    /\ \E ok \in BOOLEAN :
         IF ok
         THEN /\ bus' = [bus EXCEPT !.configuration = ConfigurationValue,
                                    !.claimed = FALSE, !.alternate = 0]
              /\ call' = OpenFrom(call, bus', 3)
         ELSE /\ bus' = bus
              /\ call' = Throw(call, Err("open", -1, -1))
    /\ wire' = Append(wire, StreamEvent("selectConfiguration"))
    /\ UNCHANGED <<background, dev, connected, dnloads, progress, orch, fl, lastStatus, pandaBuffer, bootstubBuffer>>

\* await this.device.claimInterface(intfNumber)
open_claimInterface ==
    /\ call.op = "open" /\ call.pc = "claimInterface"
    /\ \E ok \in BOOLEAN :
         IF ok
         THEN /\ bus' = [bus EXCEPT !.claimed = TRUE]
              /\ call' = OpenFrom(call, bus', 4)
         ELSE /\ bus' = bus
              /\ call' = Throw(call, Err("open", -1, -1))
    /\ wire' = Append(wire, StreamEvent("claimInterface"))
    /\ UNCHANGED <<background, dev, connected, dnloads, progress, orch, fl, lastStatus, pandaBuffer, bootstubBuffer>>

\* try { await this.device.selectAlternateInterface(intfNumber, alt) }
\* catch (e) { if (!intf.alternate || intf.alternate.alternateSetting !== alt) throw e }
open_selectAlternateInterface ==
    /\ call.op = "open" /\ call.pc = "selectAlternateInterface"
    /\ \E ok \in BOOLEAN :
         IF ok
         THEN /\ bus' = [bus EXCEPT !.alternate = call.settings[2]]
              /\ call' = Return(call)
         ELSE /\ bus' = bus
              /\ call' = IF bus.alternate = -1 \/ bus.alternate # call.settings[2]
                         THEN Throw(call, Err("open", -1, -1))
                         ELSE Return(call)
    /\ wire' = Append(wire, StreamEvent("selectAlternateInterface"))
    /\ UNCHANGED <<background, dev, connected, dnloads, progress, orch, fl, lastStatus, pandaBuffer, bootstubBuffer>>

\* the second of two open() calls made one after the other
open_again ==
    /\ call.op = "open"
    /\ call.pc \in {"returned", "threw"}
    /\ call.first = "none"
    /\ call' = [open(bus, call.settings[2]) EXCEPT !.first = call.pc]
    /\ wire' = <<>>
    /\ UNCHANGED <<background, bus, dev, connected, dnloads, progress, orch, fl, lastStatus, pandaBuffer, bootstubBuffer>>

InitOpen ==
    /\ bus \in Sessions
    /\ \E alt \in 0..1 : call = open(bus, alt)
    /\ dnloads = <<>>
    /\ progress = <<>>
    /\ orch = NoOrch
    /\ fl = NoFlash
    /\ wire = <<>>
    /\ background = <<>>
    /\ dev = AnyDevice
    /\ connected = TRUE
    /\ lastStatus = NoAnswer
    /\ pandaBuffer = 0
    /\ bootstubBuffer = 0

NextOpen ==
    \/ open_open
    \/ open_selectConfiguration
    \/ open_claimInterface
    \/ open_selectAlternateInterface
    \/ open_again

SpecOpen == InitOpen /\ [][NextOpen]_vars

\* the session has the device open, the stored configuration active, the stored
\* interface claimed and the stored alternate setting active
Ready(s, alt) ==
    s.opened /\ s.configuration = ConfigurationValue /\ s.claimed /\ s.alternate = alt

\* an open() handed a device that is already open
OpenOnReady == call.op = "open" /\ Ready(call.entered, call.settings[2])

\* C22 as stated: open() on a device that is already open, configured, claimed and
\* in the stored alternate setting issues no WebUSB call, however many alternate
\* settings the interface has
C22_IssuesNothing == OpenOnReady => wire = <<>>

\* C22, amended: open() on such a device issues none of open, selectConfiguration
\* and claimInterface; it issues selectAlternateInterface once exactly when the
\* interface has more than one alternate setting; it returns normally whatever
\* that call does, and leaves the session as it found it
C22_ReselectsWhenSeveral ==
    OpenOnReady =>
        /\ wire \in {<<>>, <<StreamEvent("selectAlternateInterface")>>}
        /\ wire # <<>> => call.entered.alternates > 1
        /\ call.pc # "threw"
        /\ Session(bus) = call.entered
        /\ call.pc = "returned" => (wire # <<>> <=> call.entered.alternates > 1)

\* a second open() in a row has returned, having selected the alternate setting again
C22_Witness ==
    /\ OpenOnReady
    /\ call.first = "returned"
    /\ call.pc = "returned"
    /\ wire = <<StreamEvent("selectAlternateInterface")>>

(***************************************************************************)
(* requestOut / requestIn and their callers: the page together with direct *)
(* calls of the DfuDevice methods (do_download with either tolerance).     *)
(***************************************************************************)
InitTransport == Init \/ InitCall

NextTransport == Next \/ do_download_finalStatus

SpecTransport == InitTransport /\ [][NextTransport]_vars

\* a step of a DfuDevice method that awaits requestOut or requestIn, apart from the
\* final status read of do_download
MethodTransfer ==
    \/ abortToIdle_ABORT
    \/ abortToIdle_getState
    \/ abortToIdle_CLRSTATUS
    \/ dfuse_dnloadBlock
    \/ do_download_dnloadBlock
    \/ do_download_ZLP
    \/ pollUntil_getStatus

\* after a transfer of a method that did not report "ok" the method has thrown the
\* transport error, and its callers do not take it for a success: an orchestrator
\* starts over at its next size or gives up, flash ends the run
ErrorsRaised ==
    /\ (bus'.status # "ok" /\ MethodTransfer) =>
            call'.pc = "threw" /\ call'.err = TransferError(bus'.status)
    /\ (bus'.status = "ok" /\ call'.pc = "threw" /\ MethodTransfer) =>
            call'.err.kind \notin {"transfer", "disconnected"}
    /\ (call.err.kind = "transfer" /\ orch_catch) => orch'.pc = "loop"
    /\ (call.caller = "flash" /\ call.pc = "threw" /\ flash_await) => fl'.status = "failed"

\* C23 as stated: a request that does not report "ok" raises a transport error, and
\* no caller goes on to its next step after it, except do_download after its final
\* status read without tolerance and flash after DETACH
C23_OnlyTwoBestEffort ==
    [][/\ ErrorsRaised
       /\ (bus'.status # "ok" /\ flash_getState) => fl'.status = "failed"]_vars

\* C23, amended: the same, with a third best-effort request: flash goes on to the
\* erase of the bootstub page whatever its getState between the two phases did
C23_ThreeBestEffort ==
    [][/\ ErrorsRaised
       /\ flash_getState => fl'.status = "running" /\ fl'.step = fl.step + 1
       /\ flash_DETACH => fl'.status = "success"
       /\ do_download_finalStatus => call'.pc = "returned"]_vars

\* a run that ended because an erase or a set-address met a stalled transfer
C23_Witness ==
    /\ bus.status = "stall"
    /\ call.caller = "flash" /\ call.pc = "threw" /\ call.err = TransferError("stall")
    /\ fl.status = "failed" /\ fl.err = TransferError("stall")

(***************************************************************************)
(* abortToIdle, on its own or as the first part of another method.         *)
(***************************************************************************)
\* the method in progress is inside its abortToIdle
InAbortToIdle(c) == c.pc \in {"abort", "abort_getState", "clrstatus", "clr_getState"}

\* the last request was a GETSTATE that went through and read the state s
ReadLast(b, s) == b.request = Class(GETSTATE, 0) /\ b.status = "ok" /\ b.observed = s

\* C24: abortToIdle ends normally only when the last state it read is dfuIDLE; when
\* the last state it read is another one it throws the state-recovery error with that
\* state (a request that fails throws its transport error instead); CLRSTATUS is
\* sent only after the GETSTATE that follows ABORT has read dfuERROR, and the
\* GETSTATE after it is the last request of the call, so it is sent at most once
C24_AbortToIdle ==
    [][/\ (InAbortToIdle(call) /\ ~InAbortToIdle(call')) =>
              IF call'.pc # "threw" THEN ReadLast(bus', dfuIDLE)
              ELSE IF bus'.status # "ok" THEN call'.err = TransferError(bus'.status)
              ELSE /\ \E s \in ReportedStates \ {dfuIDLE} : ReadLast(bus', s)
                   /\ call'.err = Err("idle", bus'.observed, -1)
       /\ abortToIdle_CLRSTATUS => call.pc = "clrstatus" /\ ReadLast(bus, dfuERROR)
       /\ (call'.pc = "clrstatus" /\ call.pc # "clrstatus") =>
              call.pc = "abort_getState" /\ ReadLast(bus', dfuERROR)
       /\ (call'.pc = "abort_getState" /\ call.pc # "abort_getState") => call.pc = "abort"
       /\ (call'.pc = "clr_getState" /\ call.pc # "clr_getState") => abortToIdle_CLRSTATUS
       /\ call.pc = "clr_getState" => ~InAbortToIdle(call') \/ call' = call]_vars

\* an abortToIdle that sent CLRSTATUS, read a state other than dfuIDLE after it and
\* threw the state-recovery error
C24_Witness ==
    /\ call.pc = "threw"
    /\ call.err.kind = "idle"
    /\ bus.before = dfuERROR
    /\ ReadLast(bus, call.err.state)

(***************************************************************************)
(* pollUntil.                                                              *)
(***************************************************************************)
\* the request before this step was a GETSTATUS
AfterGetStatus == bus.request = Class(GETSTATUS, 0)

\* C25: pollUntil ends normally only on a GETSTATUS whose answer has the target state
\* or dfuERROR, and what its caller does next is decided by that answer; it goes on
\* polling on any other state; between two GETSTATUS requests of one pollUntil there
\* is one sleep, for the poll timeout of the earlier answer, and none before the first
C25_PollUntil ==
    [][/\ pollUntil_getStatus =>
              /\ (bus'.status = "ok" /\ call'.pc # "sleep") =>
                    /\ lastStatus'.state \in {call.targetState, dfuERROR}
                    /\ IF call'.pc = "threw"
                       THEN /\ lastStatus'.status # 0
                            /\ call'.err.state = lastStatus'.state
                            /\ call'.err.status = lastStatus'.status
                       ELSE lastStatus'.status = 0
              /\ call'.pc = "sleep" =>
                    /\ bus'.status = "ok"
                    /\ lastStatus'.state \notin {call.targetState, dfuERROR}
                    /\ call'.st.state = lastStatus'.state
                    /\ call'.st.status = lastStatus'.status
                    /\ call'.st.pollTimeout \in ReportedTimeouts
              /\ IF AfterGetStatus THEN call.slept \in ReportedTimeouts ELSE call.slept = -1
       /\ pollUntil_sleep => call.slept = -1 /\ call'.slept = call.st.pollTimeout]_vars

\* an erase or a set-address whose pollUntil found the device busy, slept, read the
\* status again and returned it
C25_Witness ==
    /\ call.op \in {"dfuseErase", "dfuseSetAddress"}
    /\ call.pc = "returned"
    /\ bus.request = Class(GETSTATUS, 0)
    /\ bus.before = dfuDNBUSY
    /\ bus.observed = dfuDNLOAD_IDLE

(***************************************************************************)
(* The end of do_download, after the zero-length block.                    *)
(***************************************************************************)
\* C26: a do_download that returns has, with manifestationTolerant, read last a
\* status with state dfuIDLE and status code 0, and without it has sent one
\* GETSTATUS after the zero-length block, whatever became of that request
C26_TerminalStatus ==
    (call.op = "do_download" /\ call.pc = "returned") =>
        /\ bus.request = Class(GETSTATUS, 0)
        /\ call.manifestationTolerant =>
              bus.status = "ok" /\ lastStatus = Answer(0, dfuIDLE)

(***************************************************************************)
(* The start of do_download.                                               *)
(***************************************************************************)
\* the last request was one of abortToIdle
AbortToIdleRequest(b) ==
    b.request \in {Class(ABORT, 0), Class(GETSTATE, 0), Class(CLRSTATUS, 0)}

\* C27: while do_download is in its abortToIdle it has sent no DNLOAD and emitted no
\* progress; it leaves abortToIdle for its first progress and its blocks only on a
\* GETSTATE that read dfuIDLE; and if it ends inside abortToIdle it has thrown,
\* without a block sent or a progress emitted
C27_NothingBeforeIdle ==
    [][call'.op = "do_download" =>
          /\ InAbortToIdle(call') => dnloads' = <<>> /\ progress' = <<>>
          /\ (dnloads' # <<>> \/ progress' # <<>>) /\ dnloads = <<>> /\ progress = <<>> =>
                \/ InAbortToIdle(call) /\ ReadLast(bus', dfuIDLE)
                \/ ~InAbortToIdle(call) /\ ReadLast(bus, dfuIDLE)
          /\ (InAbortToIdle(call) /\ ~InAbortToIdle(call') /\ ~ReadLast(bus', dfuIDLE)) =>
                call'.pc = "threw" /\ dnloads' = <<>> /\ progress' = <<>>
          /\ (call'.pc = "threw" /\ AbortToIdleRequest(bus')) =>
                dnloads' = <<>> /\ progress' = <<>>]_vars

\* a do_download whose abortToIdle found the device in another state than dfuIDLE:
\* it has failed and no block was sent
C27_Witness ==
    /\ call.op = "do_download"
    /\ call.byteLength > 0
    /\ call.pc = "threw"
    /\ call.err.kind = "idle"
    /\ dnloads = <<>>
    /\ progress = <<>>

(***************************************************************************)
(* A step of the flash script that fails.                                  *)
(***************************************************************************)
\* the step of the script that writes the main image (phase 1)
Phase1 == CHOOSE n \in 1..Len(Script) :
              Script[n].op = "flashWithRetry" /\ Script[n].image = "panda.bin"

\* the erases and the set-address of the script before its step n, back to the
\* image write before them
Prepares(n) ==
    {k \in 1..(n - 1) :
        /\ Script[k].op \in {"dfuseErase", "dfuseSetAddress"}
        /\ \A j \in k..(n - 1) : Script[j].op # "flashWithRetry"}

\* C28: a run whose erase, set-address or image write has thrown, timed out or
\* returned false ends there and begins no later step; an image write is begun only
\* when the erases and the set-address before it have completed, so that no image
\* data follows a failed erase or set-address; and the bootstub page is erased only
\* when the write of the main image has returned success
C28_FailureEndsRun ==
    [][/\ fl.status = "failed" => fl' = fl
       /\ (flash_await /\ ~Succeeded) =>
              fl'.status = "failed" /\ fl'.step = fl.step
       /\ withTimeout_reject => fl'.status = "failed" /\ fl'.step = fl.step
       /\ (fl'.status = "failed" /\ fl'.step <= Len(Script)
              /\ Script[fl'.step].op \in {"dfuseErase", "dfuseSetAddress"}) =>
              orch' = NoOrch /\ call'.op \in {"dfuseErase", "dfuseSetAddress"}
       /\ \A n \in {Phase1, Phase2} :
              (orch'.caller = "flash" /\ orch'.operation = Script[n].image) =>
                  Prepares(n) \subseteq fl'.done
       /\ (call'.caller = "flash" /\ call'.op = "dfuseErase" /\ call'.addr = BootstubBase) =>
              Phase1 \in fl'.done]_vars

\* a run that ended at the set-address of the main image, which met a stalled
\* transfer: no image write was begun
C28_Witness ==
    /\ fl.status = "failed"
    /\ Current.op = "dfuseSetAddress" /\ Current.addr = MainBase
    /\ call.pc = "threw" /\ call.err = TransferError("stall")
    /\ orch = NoOrch

(***************************************************************************)
(* The flash run with time passing: every control transfer, the load of    *)
(* the firmware and every continuation complete, and a timer that is set   *)
(* fires unless the promise it guards settles first.                       *)
(***************************************************************************)
Fairness ==
    /\ WF_vars(Next)
    /\ WF_vars(flash_await)
    /\ WF_vars(withTimeout_reject)

SpecLive == Init /\ [][Next]_vars /\ Fairness

\* flash is waiting for a method that polls the device
Polling ==
    /\ fl.status = "running"
    /\ call.caller \in {"flash", "orch"}
    /\ call.pc \in {"poll", "sleep"}

\* C29: a step of a flash run that polls the device is under a timer of withTimeout,
\* and every flash run that has begun ends with the message of success, of failure or
\* of timeout, whatever the device answers
C29_RunEnds ==
    /\ [](Polling => Current.ms > 0)
    /\ (fl.status = "running") ~> (fl.status \in {"success", "failed"})

\* a run that ended by its timer while the device kept answering dfuDNBUSY
C29_Witness ==
    /\ fl.status = "failed"
    /\ fl.message = "timed out"
    /\ call.pc \in {"poll", "sleep"}
    /\ bus.before = dfuDNBUSY /\ bus.observed = dfuDNBUSY

(***************************************************************************)
(* The progress reports of one do_download.                                *)
(***************************************************************************)
\* a DNLOAD that carries bytes of the image
IsDataBlock(d) == d.data.src = "view"

\* the poll after a data block ends in this step with the given test of its status code
DataBlockPolled(ok) ==
    /\ call.op = "do_download" /\ call.targetState = dfuDNLOAD_IDLE
    /\ bus'.status = "ok"
    /\ call'.pc # "sleep"
    /\ (lastStatus'.status = 0) = ok
    /\ pollUntil_getStatus

\* C30: the progress of a do_download of an image of length L begins with (0, L); one
\* report is added when the poll after a data block ends with status code 0, giving
\* the bytes sent up to the end of that block, and none in any other step (none for a
\* block whose status code is nonzero); the done values increase strictly, never
\* exceed L, and are L once the last data block is acknowledged
C30_Progress ==
    [][call'.op = "do_download" =>
          LET L == call'.byteLength
              data == SelectSeq(dnloads', IsDataBlock)
              n == Len(progress')
          IN  /\ n > 0 =>
                    /\ progress'[1] = <<0, L>>
                    /\ \A i \in 1..n : progress'[i][2] = L /\ progress'[i][1] <= L
                    /\ \A i \in 1..(n - 1) : progress'[i][1] < progress'[i + 1][1]
                    /\ Len(data) \in {n - 1, n}
                    /\ \A i \in 2..n : progress'[i][1] = data[i - 1].data.off + data[i - 1].data.len
                    /\ Len(dnloads') > Len(data) => progress'[n][1] = L
              /\ n = 0 => dnloads' = <<>>
              /\ progress' # progress =>
                    \/ progress = <<>> /\ n = 1
                    \/ DataBlockPolled(TRUE) /\ progress' = Append(progress, <<call'.sent, L>>)
              /\ DataBlockPolled(TRUE) => n = Len(progress) + 1
              /\ DataBlockPolled(FALSE) => progress' = progress /\ call'.pc = "threw"]_vars

\* a returned download of three bytes in blocks of two: progress (0, 3), (2, 3), (3, 3)
C30_Witness ==
    /\ DownloadReturned
    /\ progress = << <<0, 3>>, <<2, 3>> , <<3, 3>> >>

(***************************************************************************)
(* C31: which functional descriptor gives the transfer size.               *)
(***************************************************************************)

\* the functional record j lies inside the target interface: the last interface
\* record before it is the matching one
InTargetInterface(records, settings, j) ==
    /\ records[j][2] = 33
    /\ \E i \in 1..(j - 1) :
        /\ records[i] = InterfaceRecord(settings[1], settings[2], 254, 1, 2)
        /\ \A k \in (i + 1)..(j - 1) : records[k][2] # 4

\* the first functional record inside the target interface
FirstFunctional(records, settings) ==
    CHOOSE j \in 1..Len(records) :
        /\ InTargetInterface(records, settings, j)
        /\ \A k \in 1..(j - 1) : ~InTargetInterface(records, settings, k)

\* the transfer-size field of a functional record: bytes 5 and 6, low byte first
TransferSizeField(record) == record[6] + 256 * record[7]

\* C31 as stated: when getTransferSize returns over a configuration descriptor
\* (header and whole records) with a functional record inside the target
\* interface, its result is the transfer-size field of the first such record.
C31_ResultIsField ==
    (/\ call.op = "getTransferSize" /\ call.pc = "returned"
     /\ WholeDescriptor(call)
     /\ FunctionalInTarget(call.records, call.settings)) =>
        call.result = TransferSizeField(call.records[FirstFunctional(call.records,
                                                                     call.settings)])

\* C31, amended: the result is the transfer-size field of the first functional
\* record inside the target interface, or 2048 when that field is 0; functional
\* records outside the target interface never determine it, so that without one
\* inside the result is the default 2048.
C31_ResultIsFieldOrDefault ==
    (/\ call.op = "getTransferSize" /\ call.pc = "returned"
     /\ WholeDescriptor(call)) =>
        IF FunctionalInTarget(call.records, call.settings)
        THEN LET wTransferSize ==
                     TransferSizeField(call.records[FirstFunctional(call.records,
                                                                    call.settings)])
             IN  call.result = IF wTransferSize # 0 THEN wTransferSize ELSE 2048
        ELSE call.result = 2048

\* a functional record of size 0 before any interface record, then the matching
\* interface record and its functional record of 1024 bytes: 1024 is returned
C31_Witness ==
    /\ call.op = "getTransferSize" /\ call.pc = "returned"
    /\ call.settings = <<0, 0>>
    /\ call.cut = 0
    /\ call.records = <<FunctionalRecord(0), InterfaceRecord(0, 0, 254, 1, 2),
                        FunctionalRecord(1024)>>
    /\ call.result = 1024

(***************************************************************************)
(* C32: the payload of the two vendor commands, over addresses that use    *)
(* every byte of the 32-bit field.                                         *)
(***************************************************************************)
\* the flash addresses of the script, and addresses whose four bytes differ:
\* 0x12345678, 0x00FF00FF, 0x7FFFFFFF, the powers of 256 and their neighbours
AddressSamples ==
    Addresses \cup {0, 1, 255, 256, 65535, 65536, 16711935, 16777216, 305419896,
                    2147483647}

InitCommand ==
    /\ call \in {dfuseCall("none", op, a) :
                    op \in {"dfuseErase", "dfuseSetAddress"}, a \in AddressSamples}
    /\ dnloads = <<>>
    /\ progress = <<>>
    /\ orch = NoOrch
    /\ fl = NoFlash
    /\ wire = <<>>
    /\ bus = NoBus
    /\ background = <<>>
    /\ dev = AnyDevice
    /\ connected = TRUE
    /\ lastStatus = NoAnswer
    /\ pandaBuffer = 0
    /\ bootstubBuffer = 0

NextCommand ==
    \/ abortToIdle_ABORT
    \/ abortToIdle_getState
    \/ abortToIdle_CLRSTATUS
    \/ dfuse_dnloadBlock
    \/ pollUntil_getStatus
    \/ pollUntil_sleep

SpecCommand == InitCommand /\ [][NextCommand]_vars

\* C32: every DNLOAD that dfuseSetAddress(a) or dfuseErase(a) sends has block
\* number 0 and a payload of exactly 5 bytes: byte 0 is 0x21 for set address and
\* 0x41 for erase, bytes 1..4 are a with the low byte first, and decoding bytes
\* 1..4 gives a back; the call sends one such DNLOAD at most.
C32_CommandPayload ==
    call.op \in {"dfuseErase", "dfuseSetAddress"} =>
        /\ Len(dnloads) <= 1
        /\ \A k \in 1..Len(dnloads) :
            LET b == dnloads[k].data.bytes
                a == call.addr
            IN  /\ dnloads[k].blockNum = 0
                /\ dnloads[k].data.len = 5
                /\ Len(b) = 5
                /\ \A i \in 1..5 : b[i] \in 0..255
                /\ b[1] = IF call.op = "dfuseSetAddress" THEN 33 ELSE 65
                /\ b[2] = a % 256
                /\ b[3] = (a \div 256) % 256
                /\ b[4] = (a \div 65536) % 256
                /\ b[5] = (a \div 16777216) % 256
                /\ b[2] + 256 * (b[3] + 256 * (b[4] + 256 * b[5])) = a

\* dfuseErase(0x12345678) has sent 41 78 56 34 12 as block 0
C32_Witness ==
    /\ call.op = "dfuseErase"
    /\ call.addr = 305419896
    /\ call.pc = "poll"
    /\ bus.request = Class(DNLOAD, 5)
    /\ Len(dnloads) = 1
    /\ dnloads[1].blockNum = 0
    /\ dnloads[1].data.bytes = <<65, 120, 86, 52, 18>>

(***************************************************************************)
(* lib/webdfu.js: dfu.Device.dfuseCommand under dfuseErase and             *)
(* dfuseSetAddress.  first is history: how the abortToIdle of the command  *)
(* ended.                                                                  *)
(***************************************************************************)
\* v.setUint8(0, 0x41) in dfu.Device.dfuseErase, v.setUint8(0, 0x21) in
\* dfu.Device.dfuseSetAddress
dfu_Opcode(op) == IF op = "dfu.dfuseErase" THEN 65 ELSE 33

\* dfu.Device.dfuseErase(addr) / dfuseSetAddress(addr) up to the first request of
\* the abortToIdle of dfuseCommand
dfu_dfuseCall(op, addr) ==
    [NoCall EXCEPT !.op = op, !.pc = "dfu_abort", !.addr = addr]

\* try { await this.abortToIdle(); } catch {}: whatever abortToIdle throws is
\* dropped and dfuseCommand goes on to its download
dfu_Caught(c) == [c EXCEPT !.pc = "dfu_download", !.first = "threw", !.s = -1]

\* if (st !== dfu.dfuIDLE) throw ..., inside the try of dfuseCommand
dfu_AfterAbort(c, st) ==
    IF st # dfuIDLE THEN dfu_Caught(c)
    ELSE [c EXCEPT !.pc = "dfu_download", !.first = "returned", !.s = -1]

\* abortToIdle: await this.abort()
dfu_abort ==
    /\ call.pc = "dfu_abort"
    /\ \E o \in Outcomes : Transfer(o, Class(ABORT, 0), NoAnswer) /\
         (call' = IF o = "ok" THEN [call EXCEPT !.pc = "dfu_getState"]
                 ELSE dfu_Caught(call))
    /\ UNCHANGED <<background, dnloads, progress, orch, fl, wire, lastStatus, pandaBuffer, bootstubBuffer>>

\* abortToIdle: let st = await this.getState(), after abort and after clearStatus
dfu_getState ==
    /\ call.pc \in {"dfu_getState", "dfu_clr_getState"}
    /\ \E o \in Outcomes, st \in ReportedStates :
         Transfer(o, Class(GETSTATE, 0), Answer(-1, st)) /\
         (call' = IF o # "ok" THEN dfu_Caught(call)
                 ELSE IF call.pc = "dfu_getState" /\ st = dfuERROR
                      THEN [call EXCEPT !.pc = "dfu_clearStatus", !.s = st]
                      ELSE dfu_AfterAbort(call, st))
    /\ UNCHANGED <<background, dnloads, progress, orch, fl, wire, lastStatus, pandaBuffer, bootstubBuffer>>

\* abortToIdle: await this.clearStatus()
dfu_clearStatus ==
    /\ call.pc = "dfu_clearStatus"
    /\ \E o \in Outcomes : Transfer(o, Class(CLRSTATUS, 0), NoAnswer) /\
         (call' = IF o = "ok" THEN [call EXCEPT !.pc = "dfu_clr_getState"]
                 ELSE dfu_Caught(call))
    /\ UNCHANGED <<background, dnloads, progress, orch, fl, wire, lastStatus, pandaBuffer, bootstubBuffer>>

\* dfuseCommand: await this.download(cmdBytes, 0)
dfu_download ==
    /\ call.pc = "dfu_download"
    /\ dnloads' = Append(dnloads, Dnload(CommandBuffer(dfu_Opcode(call.op), call.addr), 0))
    /\ \E o \in Outcomes : Transfer(o, Class(DNLOAD, 5), NoAnswer) /\
         (call' = IF o = "ok" THEN [call EXCEPT !.pc = "dfu_poll"]
                 ELSE Throw(call, TransferError(o)))
    /\ lastStatus' = NoAnswer
    /\ UNCHANGED <<background, progress, orch, fl, wire, pandaBuffer, bootstubBuffer>>

\* poll_until: st = await this.getStatus() and the test of the while loop, then
\* dfuseCommand: if (st.status !== dfu.STATUS_OK) throw ...
dfu_poll_until ==
    /\ call.pc = "dfu_poll"
    /\ \E o \in Outcomes, b0 \in ReportedStatus, t \in ReportedTimeouts,
          b4 \in ReportedStates : Transfer(o, Class(GETSTATUS, 0), Answer(b0, b4)) /\
         (LET st == getStatus(b0, t, b4)
          IN  /\ call' = IF o # "ok" THEN Throw(Woken(call), TransferError(o))
                         ELSE IF st.state # dfuDNLOAD_IDLE /\ st.state # dfuERROR
                              THEN [Woken(call) EXCEPT !.pc = "dfu_sleep", !.st = st]
                              ELSE IF st.status # 0
                                   THEN Throw(Woken(call), Err(call.op, st.state, st.status))
                                   ELSE Return(Woken(call))
              /\ lastStatus' = IF o = "ok" THEN Answer(b0, b4) ELSE NoAnswer)
    /\ UNCHANGED <<background, dnloads, progress, orch, fl, wire, pandaBuffer, bootstubBuffer>>

\* poll_until: await sleep(st.pollTimeout)
dfu_sleep ==
    /\ call.pc = "dfu_sleep"
    /\ call' = [call EXCEPT !.pc = "dfu_poll", !.st = NoStatus, !.slept = call.st.pollTimeout]
    /\ UNCHANGED <<background, bus, dev, connected, dnloads, progress, orch, fl, wire, lastStatus, pandaBuffer, bootstubBuffer>>

InitWebdfu ==
    /\ call \in {dfu_dfuseCall(op, a) :
                    op \in {"dfu.dfuseErase", "dfu.dfuseSetAddress"}, a \in Addresses}
    /\ dnloads = <<>>
    /\ progress = <<>>
    /\ orch = NoOrch
    /\ fl = NoFlash
    /\ wire = <<>>
    /\ bus = NoBus
    /\ background = <<>>
    /\ dev = AnyDevice
    /\ connected = TRUE
    /\ lastStatus = NoAnswer
    /\ pandaBuffer = 0
    /\ bootstubBuffer = 0

NextWebdfu ==
    \/ dfu_abort
    \/ dfu_getState
    \/ dfu_clearStatus
    \/ dfu_download
    \/ dfu_poll_until
    \/ dfu_sleep

SpecWebdfu == InitWebdfu /\ [][NextWebdfu]_vars

\* C33: dfu.Device.dfuseCommand sends its block-0 DNLOAD only after its abortToIdle
\* has succeeded: after an abortToIdle that failed no DNLOAD is sent and the
\* command does not return normally.
C33_CommandOnlyFromIdle ==
    call.op \in {"dfu.dfuseErase", "dfu.dfuseSetAddress"} =>
        /\ dnloads # <<>> => call.first = "returned"
        /\ call.first = "threw" => call.pc # "returned"

(***************************************************************************)
(* What counts as the acknowledgement of a DNLOAD.                         *)
(***************************************************************************)
\* C34: a poll for dfuDNLOAD_IDLE after which do_download goes on to its next
\* block, or dfuseErase / dfuseSetAddress returns, has ended with a status whose
\* state is dfuDNLOAD_IDLE; a poll that ended in dfuERROR is not followed by either.
C34_AcknowledgedInDnloadIdle ==
    [][(/\ call.pc = "poll"
        /\ call.targetState = dfuDNLOAD_IDLE
        /\ call'.pc \in {"loop", "returned"}
        /\ pollUntil_getStatus) => lastStatus'.state = dfuDNLOAD_IDLE]_vars

(***************************************************************************)
(* How a run of flashWithRetry ends.                                       *)
(***************************************************************************)
\* the sizes of a ladder, each counted once
DistinctSizes(sizes) == {sizes[k] : k \in 1..Len(sizes)}

\* C35: a run of flashWithRetry makes at most as many attempts as its ladder has
\* distinct sizes and none after an attempt that completed; once it has ended it
\* has returned true exactly when some attempt completed or its last attempt
\* failed by disconnection, and the error it has thrown otherwise is the error of
\* its last attempt, which is not a disconnection.
C35_SuccessIff ==
    orch.fn = "flashWithRetry" =>
        LET a == orch.attempts
            n == Len(a)
        IN  /\ n <= Cardinality(DistinctSizes(orch.sizes))
            /\ \A k \in 1..(n - 1) : a[k].end \in {"disconnected", "other"}
            /\ orch.pc \in {"returned", "threw"} =>
                /\ n >= 1
                /\ a[n].end # "pending"
                /\ orch.pc = "returned" <=>
                      ((\E k \in 1..n : a[k].end = "ok") \/ a[n].end = "disconnected")
                /\ orch.pc = "returned" => orch.result = TRUE
                /\ orch.pc = "threw" =>
                      ~IncludesDisconnected(orch.err) /\ orch.err = call.err

\* a run whose first two attempts failed otherwise and whose third ended by
\* disconnection has returned true
C35_Witness ==
    /\ orch.fn = "flashWithRetry" /\ orch.pc = "returned"
    /\ Len(orch.attempts) = 3
    /\ orch.attempts[1].end = "other"
    /\ orch.attempts[2].end = "other"
    /\ orch.attempts[3].end = "disconnected"

(***************************************************************************)
(* From one do_download attempt of an orchestrator run to the next.        *)
(***************************************************************************)
\* the attempt in progress has sent no DNLOAD yet and a request goes out
BeforeFirstBlock == orch.pc = "awaiting" /\ dnloads' = <<>> /\ bus' # bus

\* C36: in a run of an orchestrator every request that goes out before the first
\* DNLOAD of an attempt is an ABORT, a GETSTATE or a CLRSTATUS, the CLRSTATUS
\* only after a GETSTATE that read dfuERROR and, once it has gone through,
\* followed by one GETSTATE after which abortToIdle is over; the attempt then starts with sent = 0 and block 2, its
\* first DNLOAD has block number 2 and the bytes from offset 0 of the image, and no
\* DNLOAD of the attempt is a command payload.
C36_AttemptStartsAfresh ==
    /\ [][orch.fn # "none" =>
             /\ \A k \in 1..Len(dnloads') : dnloads'[k].data.src # "cmd"
             /\ dnloads' # <<>> =>
                   dnloads'[1].blockNum = 2 /\ dnloads'[1].data.off = 0]_vars
    /\ [][BeforeFirstBlock =>
             /\ AbortToIdleRequest(bus')
             /\ bus'.request = Class(CLRSTATUS, 0) =>
                   bus.request = Class(GETSTATE, 0) /\ bus.observed = dfuERROR
             /\ (bus.request = Class(CLRSTATUS, 0) /\ bus.status = "ok") =>
                   bus'.request = Class(GETSTATE, 0) /\ call'.pc \in {"loop", "threw"}
             /\ call'.pc = "loop" => call'.sent = 0 /\ call'.block = 2]_vars

\* the second attempt of a run over an image of MaxRetryLen bytes, after a first
\* attempt that failed otherwise than by disconnection, has sent its first block
C36_Witness ==
    /\ orch.fn = "flashWithRetry" /\ orch.pc = "awaiting"
    /\ orch.byteLength = MaxRetryLen
    /\ Len(orch.attempts) = 2
    /\ orch.attempts[1].end = "other"
    /\ call.pc = "poll"
    /\ dnloads = <<Dnload(slice(MaxRetryLen, 0, 1024), 2)>>

(***************************************************************************)
(* Termination of do_download.  Every awaited transfer settles and every   *)
(* sleep ends; the device is one whose polls end: after a DNLOAD it        *)
(* reports, sooner or later, the state polled for or dfuERROR.             *)
(***************************************************************************)
\* a GETSTATUS of pollUntil after which the loop of pollUntil is left
PollEnds == pollUntil_getStatus /\ call'.pc # "sleep"

FairnessCall == WF_vars(NextCall) /\ SF_vars(PollEnds)

SpecCallLive == SpecCall /\ FairnessCall

\* C37: against a device whose polls end, every do_download call ends, returned or
\* thrown, and every turn of its block loop leaves sent larger than it found it
\* and at most the length of the image.
C37_Terminates ==
    /\ [][(call.op = "do_download" /\ call.pc = "poll" /\ call'.pc = "loop") =>
             call'.sent > call.sent /\ call'.sent <= call.byteLength]_vars
    /\ (call.op = "do_download") ~> (call.pc \in {"returned", "threw"})

\* a do_download of MaxLen bytes in blocks of 1 byte has returned
C37_Witness ==
    /\ call.op = "do_download" /\ call.pc = "returned"
    /\ call.byteLength = MaxLen /\ call.xferSize = 1
    /\ call.sent = MaxLen
    /\ Len(dnloads) = MaxLen + 1

(***************************************************************************)
(* The walk of getTransferSize: its end and the size it returns.           *)
(***************************************************************************)
\* C38: a turn of the walk either ends it, by a return or an error, or goes on
\* from an offset with two bytes in the view to a strictly larger one; a length
\* field below 2 ends it with the default; the size returned is never 0, and it is
\* 2048 or the 16-bit field.
C38_WalkEndsNonZero ==
    [][(call.op = "getTransferSize" /\ call.pc = "walk") =>
          /\ call'.pc \in {"walk", "returned", "threw"}
          /\ call'.pc = "walk" =>
                /\ call.offset + 2 <= Len(call.bytes)
                /\ call'.offset > call.offset
                /\ call'.bytes = call.bytes
          /\ (call.offset + 2 <= Len(call.bytes) /\ call.bytes[call.offset + 1] < 2) =>
                call'.pc = "returned" /\ call'.result = 2048
          /\ call'.pc = "returned" => call'.result \in 1..65535]_vars

\* the functional record of the target interface has a transfer size of 0: 2048 is
\* returned
C38_Witness ==
    /\ call.op = "getTransferSize" /\ call.pc = "returned"
    /\ call.settings = <<0, 0>>
    /\ call.cut = 0
    /\ call.records = <<InterfaceRecord(0, 0, 254, 1, 2), FunctionalRecord(0)>>
    /\ call.result = 2048

(***************************************************************************)
(* lib/webdfu.js: dfu.parseSubDescriptors.  bytes is the view remaining,   *)
(* records the descriptors pushed so far (length and type of each), and    *)
(* inTargetIntf the flag inDfuIntf.                                        *)
(***************************************************************************)
\* records with a length field of 0, after the records of getTransferSize
ZeroLengthRecords == {<<0, 5, 0>>, <<0, 4, 0>>}

\* descriptors pushed by one call that are followed
MaxDescriptors == 12

\* dfu.parseSubDescriptors(descriptorData), up to the head of its loop
dfu_parseSubDescriptorsCall(bytes) ==
    [NoCall EXCEPT !.op = "dfu.parseSubDescriptors", !.pc = "dfu_parse", !.bytes = bytes]

\* remaining.buffer.slice(bLength)
dfu_Rest(bytes, bLength) == SubSeq(bytes, bLength + 1, Len(bytes))

\* one turn of while (remaining.byteLength > 2), or the return after it.  view is
\* the first bLength bytes of the buffer, or all of it when it is shorter; an
\* interface record and a functional record of a DFU interface are read up to
\* their byte 8
dfu_Turn(c) ==
    IF ~(Len(c.bytes) > 2) THEN [Return(c) EXCEPT !.result = Len(c.records)]
    ELSE LET bLength == getUint8(c.bytes, 0)
             bDescriptorType == getUint8(c.bytes, 1)
             view == SubSeq(c.bytes, 1, Min(bLength, Len(c.bytes)))
             pushed == [c EXCEPT !.records = Append(c.records, <<bLength, bDescriptorType>>),
                                 !.bytes = dfu_Rest(c.bytes, bLength)]
         IN  IF bDescriptorType = 4
             THEN IF ~InView(view, 8, 1) THEN Throw(c, Err("RangeError", -1, -1))
                  ELSE [pushed EXCEPT !.inTargetIntf = (getUint8(view, 5) = 254
                                                        /\ getUint8(view, 6) = 1)]
             ELSE IF c.inTargetIntf /\ bDescriptorType = 33
             THEN IF ~InView(view, 7, 2) THEN Throw(c, Err("RangeError", -1, -1))
                  ELSE pushed
             ELSE pushed

dfu_parseSubDescriptors ==
    /\ call.pc = "dfu_parse"
    /\ Len(call.records) < MaxDescriptors
    /\ call' = dfu_Turn(call)
    /\ UNCHANGED <<background, bus, dev, connected, dnloads, progress, orch, fl, wire, lastStatus, pandaBuffer, bootstubBuffer>>

\* every byte sequence made of up to MaxRecords records, whole, broken or of
\* length 0, less up to MaxCut bytes at its end
InitSub ==
    /\ call \in
         {dfu_parseSubDescriptorsCall(SubSeq(Flatten(r), 1, Len(Flatten(r)) - c)) :
              r \in UNION {[1..n -> WholeRecords \cup BrokenRecords \cup ZeroLengthRecords] :
                              n \in 0..MaxRecords},
              c \in 0..MaxCut}
    /\ dnloads = <<>>
    /\ progress = <<>>
    /\ orch = NoOrch
    /\ fl = NoFlash
    /\ wire = <<>>
    /\ bus = NoBus
    /\ background = <<>>
    /\ dev = AnyDevice
    /\ connected = TRUE
    /\ lastStatus = NoAnswer
    /\ pandaBuffer = 0
    /\ bootstubBuffer = 0

NextSub == dfu_parseSubDescriptors

SpecSub == InitSub /\ [][NextSub]_vars

\* C39: every turn of the walk of dfu.parseSubDescriptors that does not end the
\* call leaves strictly less data remaining than it found, whatever the length
\* field of the record, so that the walk ends.
C39_RemainingShrinks ==
    [][(call.op = "dfu.parseSubDescriptors" /\ call'.pc = "dfu_parse") =>
          Len(call'.bytes) < Len(call.bytes)]_vars

(***************************************************************************)
(* DfuDevice.getStatus over the 6 bytes of the answer.  The 32-bit word    *)
(* read at byte 1 is kept as its four bytes, low byte first.               *)
(***************************************************************************)
\* values of a byte of the answer
ByteSamples == {0, 1, 10, 255}

\* the answers to GETSTATUS: 6 bytes
StatusRecords == [1..6 -> ByteSamples]

\* d.getUint32(i, true)
getUint32(d, i) == <<d[i + 1], d[i + 2], d[i + 3], d[i + 4]>>

\* the slip d.getUint32(2, true): the word is read one byte too far
getStatus_WordAtTwo(d) ==
    LET w == getUint32(d, 2)
    IN  getStatus(getUint8(d, 0), w[1] + 256 * w[2] + 65536 * w[3], getUint8(d, 4))

\* word & 0xffffff: the high byte of the word is masked out
LowThreeBytes(w) == w[1] + 256 * w[2] + 65536 * w[3]

\* { status: d.getUint8(0), pollTimeout: d.getUint32(1, true) & 0xffffff,
\*   state: d.getUint8(4) }
getStatus_record(d) ==
    getStatus(getUint8(d, 0), LowThreeBytes(getUint32(d, 1)), getUint8(d, 4))

\* dev.getStatus(), up to its requestIn
getStatusCall == [NoCall EXCEPT !.op = "getStatus", !.pc = "getStatus"]

\* const d = await this.requestIn(DfuDevice.DFU.GETSTATUS, 6), then the return
getStatus_requestIn ==
    /\ call.pc = "getStatus"
    /\ \E o \in Outcomes, d \in StatusRecords :
         Transfer(o, Class(GETSTATUS, 0), Answer(d[1], d[5])) /\
         (/\ call' = IF o # "ok" THEN Throw(call, TransferError(o))
                     ELSE [call EXCEPT !.pc = "returned", !.bytes = d,
                                       !.st = getStatus_record(d)]
          /\ lastStatus' = IF o = "ok" THEN Answer(d[1], d[5]) ELSE NoAnswer)
    /\ UNCHANGED <<background, dnloads, progress, orch, fl, wire, pandaBuffer, bootstubBuffer>>

InitStatus ==
    /\ call = getStatusCall
    /\ dnloads = <<>>
    /\ progress = <<>>
    /\ orch = NoOrch
    /\ fl = NoFlash
    /\ wire = <<>>
    /\ bus = NoBus
    /\ background = <<>>
    /\ dev = AnyDevice
    /\ connected = TRUE
    /\ lastStatus = NoAnswer
    /\ pandaBuffer = 0
    /\ bootstubBuffer = 0

NextStatus == getStatus_requestIn

SpecStatus == InitStatus /\ [][NextStatus]_vars

\* C40: the record getStatus returns for the 6 bytes d has status d[0], state d[4]
\* and pollTimeout d[1] + 256 * d[2] + 65536 * d[3], a value in 0..16777215; the
\* same bytes with any other byte 4 and byte 5 give the same pollTimeout.
C40_StatusFields ==
    (call.op = "getStatus" /\ call.pc = "returned") =>
        LET d == call.bytes
        IN  /\ Len(d) = 6
            /\ call.st.status = d[1]
            /\ call.st.state = d[5]
            /\ call.st.pollTimeout = d[2] + 256 * d[3] + 65536 * d[4]
            /\ call.st.pollTimeout \in 0..16777215
            /\ \A x, y \in ByteSamples :
                  getStatus_record([d EXCEPT ![5] = x, ![6] = y]).pollTimeout
                      = call.st.pollTimeout

\* the answer 00 FF FF FF FF FF: status 0, state 255, poll timeout 16777215
C40_Witness ==
    /\ call.op = "getStatus" /\ call.pc = "returned"
    /\ call.bytes = <<0, 255, 255, 255, 255, 255>>
    /\ call.st = [status |-> 0, pollTimeout |-> 16777215, state |-> 255]

====
